---- MODULE Spec2Model ----
(***************************************************************************)
(* Rain-alert bot (weather_bot): the notification policy (policy.py), the  *)
(* time helpers it uses (timeutil.py), the risk classifier (risk.py) and   *)
(* the Lambda handler cycle (handler.py, state_store.py).                  *)
(*                                                                         *)
(* Conventions of the model                                                *)
(*  - An instant is a whole number of minutes since an epoch that is a UTC *)
(*    midnight.  A datetime is [abs, off]: the instant and the UTC offset  *)
(*    of its tzinfo in minutes; its wall clock reads abs + off.            *)
(*  - A dict is a function whose DOMAIN is the set of keys present.        *)
(*  - A real number is an exact fraction [n, d] with d > 0 (the code uses  *)
(*    binary floating point; the model computes the same expressions       *)
(*    exactly).                                                            *)
(***************************************************************************)
EXTENDS Integers, Sequences, FiniteSets, TLC

VARIABLES
    polIn,      \* arguments of one should_send_alert call
    polOut,     \* what that call returned (or that it raised)
    sigIn,      \* arguments of one compute_risk_from_signals call
    sigOut,     \* the RiskResult it returned
    alertState, \* the ALERT_STATE item of the user in the table (or no item)
    clock,      \* the instant of the next invocation (UTC minutes)
    invocations,\* number of lambda_handler invocations so far
    lastRun,    \* what the latest invocation did
    sentLog,    \* messages delivered so far: signal hash and instant
    frmIn,      \* arguments of one filter_recent_frames call
    frmOut,     \* what it returned, and what it returned on its own output
    candIn,     \* arguments of one generate_radar_candidates call
    candOut,    \* the candidates it returned
    chain,      \* the evaluations before the one in polIn, each fed the state of the last
    running     \* invocations of lambda_handler under way at once, and their reads and writes

vars ==
    <<polIn, polOut, sigIn, sigOut, alertState, clock, invocations, lastRun, sentLog,
      frmIn, frmOut, candIn, candOut, chain, running>>

(***************************************************************************)
(* timeutil.py                                                             *)
(***************************************************************************)

\* SG_TZ = timezone(timedelta(hours=8)), in minutes.
SG_TZ == 480

MinutesPerDay == 24 * 60

\* The wall-clock reading of a datetime, in minutes since the epoch's midnight.
Wall(dt) == dt.abs + dt.off

\* to_singapore: the same instant, read on the Singapore clock.
to_singapore(dt) == [abs |-> dt.abs, off |-> SG_TZ]

\* A datetime on the Singapore clock showing day `day`, hh:mm.
SgTime(day, hh, mm) == [abs |-> day * MinutesPerDay + hh * 60 + mm - SG_TZ, off |-> SG_TZ]

\* datetime.isoformat(): the wall clock followed by the offset.
isoformat(dt) == [kind |-> "iso", wall |-> Wall(dt), tz |-> TRUE, off |-> dt.off]

\* A string that datetime.fromisoformat rejects, and the empty string.
BadIso == [kind |-> "bad", wall |-> 0, tz |-> FALSE, off |-> 0]
EmptyIso == [kind |-> "empty", wall |-> 0, tz |-> FALSE, off |-> 0]

\* The value dict.get returns for a missing key.
None == [kind |-> "None", wall |-> 0, tz |-> FALSE, off |-> 0]

\* What minutes_between answers when there is no usable older instant: float("inf").
Infinite == [inf |-> TRUE, m |-> 0]
Finite(m) == [inf |-> FALSE, m |-> m]

\* minutes_between(older_iso, newer): minutes from the stored ISO string to `newer`.
minutes_between(older_iso, newer) ==
    IF older_iso.kind \in {"None", "empty"} THEN Infinite
    ELSE IF older_iso.kind # "iso" THEN Infinite
    ELSE LET olderAbs == IF older_iso.tz THEN older_iso.wall - older_iso.off
                         ELSE older_iso.wall
         IN Finite(newer.abs - olderAbs)

\* One piece of value.split(":"): text that int() accepts (num) with its value, or not.
Piece(v) == [num |-> TRUE, val |-> v]
Junk == [num |-> FALSE, val |-> 0]
HHMM(hh, mm) == <<Piece(hh), Piece(mm)>>

\* _parse_hhmm: ok with (hours, minutes), or not ok when it raises ValueError.
ParseFailed == [ok |-> FALSE, hours |-> 0, minutes |-> 0]
_parse_hhmm(value) ==
    IF Len(value) # 2 THEN ParseFailed
    ELSE IF ~value[1].num \/ ~value[2].num THEN ParseFailed
    ELSE IF ~(0 <= value[1].val /\ value[1].val <= 23
              /\ 0 <= value[2].val /\ value[2].val <= 59) THEN ParseFailed
    ELSE [ok |-> TRUE, hours |-> value[1].val, minutes |-> value[2].val]

\* is_within_quiet_hours raises exactly when one of its two _parse_hhmm calls does.
QuietHoursRaises(quiet_start, quiet_end) ==
    ~_parse_hhmm(quiet_start).ok \/ ~_parse_hhmm(quiet_end).ok

\* is_within_quiet_hours, for arguments on which it does not raise.
is_within_quiet_hours(now_sg, quiet_start, quiet_end) ==
    LET now_minutes == Wall(now_sg) % MinutesPerDay
        start_minutes == _parse_hhmm(quiet_start).hours * 60 + _parse_hhmm(quiet_start).minutes
        end_minutes == _parse_hhmm(quiet_end).hours * 60 + _parse_hhmm(quiet_end).minutes
    IN IF start_minutes = end_minutes THEN FALSE
       ELSE IF start_minutes < end_minutes
            THEN start_minutes <= now_minutes /\ now_minutes < end_minutes
       ELSE now_minutes >= start_minutes \/ now_minutes < end_minutes

(***************************************************************************)
(* policy.py                                                               *)
(***************************************************************************)

\* dict.get(key, default)
Get(dict, key, default) == IF key \in DOMAIN dict THEN dict[key] ELSE default

\* The empty dict (and what `previous_state or {}` makes of None).
EmptyState == [k \in {} |-> ""]

\* LEVEL_WEIGHT.get(level, 0)
LEVEL_WEIGHT(level) ==
    CASE level = "none" -> 0
      [] level = "low" -> 1
      [] level = "medium" -> 2
      [] level = "high" -> 3
      [] OTHER -> 0

\* ETA_BUCKET_WEIGHT.get(bucket, ETA_BUCKET_WEIGHT["unknown"])
ETA_BUCKET_WEIGHT(bucket) ==
    CASE bucket = "unknown" -> 99
      [] bucket = "30_plus" -> 50
      [] bucket = "30_16" -> 40
      [] bucket = "15_6" -> 30
      [] bucket = "5_1" -> 20
      [] bucket = "now" -> 10
      [] OTHER -> 99

\* f"{level}:{score // 10}:{eta_bucket}"
\* A slip: the hash leaves the ETA bucket out.
_signal_hash_without_bucket(level, score, eta_bucket) ==
    level \o ":" \o ToString(score \div 10)

_signal_hash(level, score, eta_bucket) ==
    level \o ":" \o ToString(score \div 10) \o ":" \o eta_bucket

\* A slip: an equal bucket counts as tighter.
_is_tighter_eta_or_equal(previous_bucket, next_bucket) ==
    ETA_BUCKET_WEIGHT(next_bucket) <= ETA_BUCKET_WEIGHT(previous_bucket)

_is_tighter_eta(previous_bucket, next_bucket) ==
    ETA_BUCKET_WEIGHT(next_bucket) < ETA_BUCKET_WEIGHT(previous_bucket)

\* A slip: the comparison the wrong way round.
_is_upward_transition_swapped(previous_level, next_level) ==
    LEVEL_WEIGHT(previous_level) > LEVEL_WEIGHT(next_level)

\* A slip: an equal level counts as a rise.
_is_upward_transition_or_equal(previous_level, next_level) ==
    LEVEL_WEIGHT(next_level) >= LEVEL_WEIGHT(previous_level)

_is_upward_transition(previous_level, next_level) ==
    LEVEL_WEIGHT(next_level) > LEVEL_WEIGHT(previous_level)

_is_eta_tightening_transition(previous_level, previous_eta_bucket, next_level, next_eta_bucket) ==
    IF LEVEL_WEIGHT(next_level) < LEVEL_WEIGHT("medium") THEN FALSE
    ELSE IF LEVEL_WEIGHT(next_level) # LEVEL_WEIGHT(previous_level) THEN FALSE
    ELSE _is_tighter_eta(previous_eta_bucket, next_eta_bucket)

\* since_minutes < cooldown_minutes, where since_minutes may be float("inf").
LessThan(since, cooldown_minutes) == ~since.inf /\ since.m < cooldown_minutes

\* A slip: a message sent exactly cooldown_minutes ago still counts as recent.
_is_duplicate_within_cooldown_inclusive(previous_state, signal_hash, now_sg, cooldown_minutes) ==
    IF "lastSignalHash" \notin DOMAIN previous_state
         \/ previous_state["lastSignalHash"] # signal_hash
    THEN FALSE
    ELSE LET since == minutes_between(Get(previous_state, "lastSentAt", None), now_sg)
         IN ~since.inf /\ since.m <= cooldown_minutes

_is_duplicate_within_cooldown(previous_state, signal_hash, now_sg, cooldown_minutes) ==
    IF "lastSignalHash" \notin DOMAIN previous_state
         \/ previous_state["lastSignalHash"] # signal_hash
    THEN FALSE
    ELSE LessThan(minutes_between(Get(previous_state, "lastSentAt", None), now_sg),
                  cooldown_minutes)

\* sent_at_iso is None (the default) or an ISO string.
\* A slip: the snapshot carries lastSentAt whatever sent_at_iso is.
_build_next_state_stamped(level, eta_bucket, signal_hash, sent_at_iso) ==
    [lastLevel |-> level, lastEtaBucket |-> eta_bucket,
     lastSignalHash |-> signal_hash, lastSentAt |-> sent_at_iso]

_build_next_state(level, eta_bucket, signal_hash, sent_at_iso) ==
    IF sent_at_iso.kind # "None"
    THEN [lastLevel |-> level, lastEtaBucket |-> eta_bucket,
          lastSignalHash |-> signal_hash, lastSentAt |-> sent_at_iso]
    ELSE [lastLevel |-> level, lastEtaBucket |-> eta_bucket,
          lastSignalHash |-> signal_hash]

\* A slip: quiet hours silence every level.
QuietHoursApply_to_all(now_sg, quiet_start, quiet_end, next_level) ==
    is_within_quiet_hours(now_sg, quiet_start, quiet_end)

\* The second rule's condition: in quiet hours and the level is not high.
QuietHoursApply(now_sg, quiet_start, quiet_end, next_level) ==
    is_within_quiet_hours(now_sg, quiet_start, quiet_end) /\ next_level # "high"

AlertDecision(notify, reason, signal_hash, next_state) ==
    [raised |-> FALSE, notify |-> notify, reason |-> reason,
     signal_hash |-> signal_hash, next_state |-> next_state]

\* The call did not return: _parse_hhmm raised ValueError inside is_within_quiet_hours.
Raised ==
    [raised |-> TRUE, notify |-> FALSE, reason |-> "ValueError",
     signal_hash |-> "", next_state |-> EmptyState]

\* A slip: a decision silenced by quiet hours leaves the stored state as it was.
should_send_alert_deferring(risk, previous_state, now_sg, quiet_start, quiet_end, cooldown_minutes) ==
    LET previous_level == Get(previous_state, "lastLevel", "none")
        previous_eta_bucket == Get(previous_state, "lastEtaBucket", "unknown")
        next_level == risk.level
        next_eta_bucket == risk.eta_bucket
        signal_hash == _signal_hash(next_level, risk.score, next_eta_bucket)
        is_upward == _is_upward_transition(previous_level, next_level)
        is_eta_tightening ==
            _is_eta_tightening_transition(previous_level, previous_eta_bucket,
                                          next_level, next_eta_bucket)
        silent(reason) ==
            AlertDecision(FALSE, reason, signal_hash,
                          _build_next_state(next_level, next_eta_bucket, signal_hash, None))
    IN IF LEVEL_WEIGHT(next_level) < LEVEL_WEIGHT("medium")
       THEN silent("below_notification_level")
       ELSE IF QuietHoursRaises(quiet_start, quiet_end)
       THEN Raised
       ELSE IF QuietHoursApply(now_sg, quiet_start, quiet_end, next_level)
       THEN AlertDecision(FALSE, "quiet_hours", signal_hash, previous_state)
       ELSE IF ~is_upward /\ ~is_eta_tightening
       THEN silent("not_upward_or_eta_tightening")
       ELSE IF _is_duplicate_within_cooldown(previous_state, signal_hash, now_sg,
                                             cooldown_minutes)
       THEN silent("duplicate_within_cooldown")
       ELSE AlertDecision(TRUE,
                          IF is_upward THEN "upward_transition" ELSE "eta_tightening",
                          signal_hash,
                          _build_next_state(next_level, next_eta_bucket, signal_hash,
                                            isoformat(now_sg)))

should_send_alert(risk, previous_state, now_sg, quiet_start, quiet_end, cooldown_minutes) ==
    LET previous_level == Get(previous_state, "lastLevel", "none")
        previous_eta_bucket == Get(previous_state, "lastEtaBucket", "unknown")
        next_level == risk.level
        next_eta_bucket == risk.eta_bucket
        signal_hash == _signal_hash(next_level, risk.score, next_eta_bucket)
        is_upward == _is_upward_transition(previous_level, next_level)
        is_eta_tightening ==
            _is_eta_tightening_transition(previous_level, previous_eta_bucket,
                                          next_level, next_eta_bucket)
        silent(reason) ==
            AlertDecision(FALSE, reason, signal_hash,
                          _build_next_state(next_level, next_eta_bucket, signal_hash, None))
    IN IF LEVEL_WEIGHT(next_level) < LEVEL_WEIGHT("medium")
       THEN silent("below_notification_level")
       ELSE IF QuietHoursRaises(quiet_start, quiet_end)
       THEN Raised
       ELSE IF QuietHoursApply(now_sg, quiet_start, quiet_end, next_level)
       THEN silent("quiet_hours")
       ELSE IF ~is_upward /\ ~is_eta_tightening
       THEN silent("not_upward_or_eta_tightening")
       ELSE IF _is_duplicate_within_cooldown(previous_state, signal_hash, now_sg,
                                             cooldown_minutes)
       THEN silent("duplicate_within_cooldown")
       ELSE AlertDecision(TRUE,
                          IF is_upward THEN "upward_transition" ELSE "eta_tightening",
                          signal_hash,
                          _build_next_state(next_level, next_eta_bucket, signal_hash,
                                            isoformat(now_sg)))

(***************************************************************************)
(* Exact arithmetic for the float expressions of risk.py                   *)
(***************************************************************************)

RECURSIVE Gcd(_, _)
Gcd(a, b) == IF b = 0 THEN a ELSE Gcd(b, a % b)

Abs(a) == IF a < 0 THEN -a ELSE a

\* The fraction n/d in lowest terms with a positive denominator (d # 0).
Frac(n, d) ==
    LET g == Gcd(Abs(n), Abs(d))
        sign == IF d < 0 THEN -1 ELSE 1
    IN [n |-> sign * (n \div g), d |-> sign * (d \div g)]

\* The float with the integer value i.
Float(i) == [n |-> i, d |-> 1]

\* float("inf"): compares above every fraction under cross-multiplication.
INF == [n |-> 1, d |-> 0]
isfinite(x) == x.d # 0

\* The operations cancel common factors before they multiply, which keeps the
\* intermediate integers small; the values are those of the plain formulas.
RAdd(a, b) ==
    LET g == Gcd(a.d, b.d)
    IN Frac(a.n * (b.d \div g) + b.n * (a.d \div g), a.d * (b.d \div g))
RSub(a, b) == RAdd(a, [n |-> -b.n, d |-> b.d])
RMul(a, b) ==
    LET g1 == Gcd(Abs(a.n), b.d)
        g2 == Gcd(Abs(b.n), a.d)
    IN Frac((a.n \div g1) * (b.n \div g2), (a.d \div g2) * (b.d \div g1))
RDiv(a, b) == RMul(a, IF b.n < 0 THEN [n |-> -b.d, d |-> -b.n] ELSE [n |-> b.d, d |-> b.n])
RLe(a, b) ==
    LET g == Gcd(a.d, b.d)
    IN IF g = 0 THEN a.n * b.d <= b.n * a.d
       ELSE a.n * (b.d \div g) <= b.n * (a.d \div g)
RLt(a, b) ==
    LET g == Gcd(a.d, b.d)
    IN IF g = 0 THEN a.n * b.d < b.n * a.d
       ELSE a.n * (b.d \div g) < b.n * (a.d \div g)
RMin(a, b) == IF RLt(b, a) THEN b ELSE a
RMax(a, b) == IF RLt(a, b) THEN b ELSE a

\* Python's round(x) for a float x: to the nearest integer, a tie to the even one.
round(x) ==
    LET floor == x.n \div x.d
        twice == 2 * (x.n - floor * x.d)
    IN IF twice < x.d THEN floor
       ELSE IF twice > x.d THEN floor + 1
       ELSE IF floor % 2 = 0 THEN floor ELSE floor + 1

\* round(x, 3)
round3(x) == Frac(round(RMul(x, Float(1000))), 1000)

RECURSIVE RSum(_)
RSum(seq) == IF seq = <<>> THEN Float(0) ELSE RAdd(Head(seq), RSum(Tail(seq)))

(***************************************************************************)
(* risk.py                                                                 *)
(***************************************************************************)

MIN_POINTS_FOR_REGRESSION == 3
\* A slip: half the span is enough for a regression.
MIN_SPAN_MINUTES_HALVED == 10 \div 2
MIN_SPAN_MINUTES_FOR_REGRESSION == 10
\* A slip: the approach threshold twice as steep.
MIN_APPROACH_SLOPE_DOUBLED == Frac(1, 2)
MIN_APPROACH_SLOPE_PX_PER_MINUTE == Frac(1, 4)
RAIN_NOW_DISTANCE_PX == 3
HEAVY_RAIN_INTENSITY == Frac(5, 2)

\* An Optional[float] / Optional[int] that is None.
Undefined == [defined |-> FALSE, v |-> Float(0)]
Defined(v) == [defined |-> TRUE, v |-> v]

_clamp(value, low, high) == RMax(low, RMin(high, value))

\* A slip: the bucket 30_16 ends at 20 minutes.
_bucket_eta_short_half_hour(eta_minutes) ==
    IF ~eta_minutes.defined THEN "unknown"
    ELSE IF eta_minutes.v <= 0 THEN "now"
    ELSE IF eta_minutes.v <= 5 THEN "5_1"
    ELSE IF eta_minutes.v <= 15 THEN "15_6"
    ELSE IF eta_minutes.v <= 20 THEN "30_16"
    ELSE "30_plus"

\* eta_minutes: Optional[int], here [defined, v] with v an integer.
_bucket_eta(eta_minutes) ==
    IF ~eta_minutes.defined THEN "unknown"
    ELSE IF eta_minutes.v <= 0 THEN "now"
    ELSE IF eta_minutes.v <= 5 THEN "5_1"
    ELSE IF eta_minutes.v <= 15 THEN "15_6"
    ELSE IF eta_minutes.v <= 30 THEN "30_16"
    ELSE "30_plus"

NoEta == [defined |-> FALSE, v |-> 0]
Eta(v) == [defined |-> TRUE, v |-> v]

_empty_motion_estimate ==
    [eta_minutes |-> NoEta, eta_bucket |-> "unknown", intercept_px |-> Undefined,
     slope_px_per_min |-> Undefined, r2 |-> Undefined, confidence |-> Float(0),
     proximity |-> Float(0), valid_ratio |-> Float(0), valid_points |-> 0,
     valid_span_minutes |-> Float(0), valid_approach |-> FALSE]

\* A slip: the fallback reason and the base score of a low level.
_no_signal_result_weak ==
    [level |-> "low", score |-> 20, eta_minutes |-> 30, eta_bucket |-> "unknown",
     rain_now |-> FALSE, confidence |-> Float(0), reasons |-> <<"weak_signal">>,
     debug |-> [now_local |-> Float(0), rain_now |-> FALSE, nearby_signal |-> FALSE,
                distance_series_px |-> <<>>, minutes_series |-> <<>>,
                motion |-> _empty_motion_estimate]]

_no_signal_result ==
    [level |-> "low", score |-> 0, eta_minutes |-> 30, eta_bucket |-> "unknown",
     rain_now |-> FALSE, confidence |-> Float(0), reasons |-> <<"no_signal">>,
     debug |-> [now_local |-> Float(0), rain_now |-> FALSE, nearby_signal |-> FALSE,
                distance_series_px |-> <<>>, minutes_series |-> <<>>,
                motion |-> _empty_motion_estimate]]

\* The xs and ys of a sequence of points <<x, y>>.
Xs(points) == [i \in 1..Len(points) |-> points[i][1]]
Ys(points) == [i \in 1..Len(points) |-> points[i][2]]
Sq(x) == RMul(x, x)

NoFit == [fitted |-> FALSE, intercept |-> Float(0), slope |-> Float(0), r2 |-> Float(0)]

\* _linear_fit: least squares of y against x, or None.  Each local of the
\* function is computed once and handed to the statements after it.
_linear_fit(points) ==
    LET line(xs, ys, slope, intercept, sst) ==
            LET sse == RSum([i \in 1..Len(xs) |->
                               Sq(RSub(ys[i], RAdd(intercept, RMul(slope, xs[i]))))])
                r2 == IF RLe(sst, Float(0)) THEN Float(1)
                      ELSE _clamp(RSub(Float(1), RDiv(sse, sst)), Float(0), Float(1))
            IN [fitted |-> TRUE, intercept |-> intercept, slope |-> slope, r2 |-> r2]
        sloped(xs, ys, mean_x, mean_y, slope) ==
            line(xs, ys, slope, RSub(mean_y, RMul(slope, mean_x)),
                 RSum([i \in 1..Len(ys) |-> Sq(RSub(ys[i], mean_y))]))
        spread(xs, ys, mean_x, mean_y, ssxx) ==
            IF RLe(ssxx, Float(0)) THEN NoFit
            ELSE sloped(xs, ys, mean_x, mean_y,
                        RDiv(RSum([i \in 1..Len(xs) |->
                                     RMul(RSub(xs[i], mean_x), RSub(ys[i], mean_y))]),
                             ssxx))
        centred(xs, ys, mean_x, mean_y) ==
            spread(xs, ys, mean_x, mean_y,
                   RSum([i \in 1..Len(xs) |-> Sq(RSub(xs[i], mean_x))]))
        fit(xs, ys, count) ==
            IF count < 2 THEN NoFit
            ELSE centred(xs, ys, RDiv(RSum(xs), Float(count)), RDiv(RSum(ys), Float(count)))
    IN fit(Xs(points), Ys(points), Len(points))

\* zip(minutes_series, distance_series_px), keeping the finite distances.
RECURSIVE ValidPoints(_, _)
ValidPoints(minutes_series, distance_series_px) ==
    IF minutes_series = <<>> \/ distance_series_px = <<>> THEN <<>>
    ELSE (IF isfinite(Head(distance_series_px))
          THEN << <<Head(minutes_series), Head(distance_series_px)>> >>
          ELSE <<>>)
         \o ValidPoints(Tail(minutes_series), Tail(distance_series_px))

RECURSIVE RMaxOf(_)
RMaxOf(seq) == IF Len(seq) = 1 THEN seq[1] ELSE RMax(Head(seq), RMaxOf(Tail(seq)))
RECURSIVE RMinOf(_)
RMinOf(seq) == IF Len(seq) = 1 THEN seq[1] ELSE RMin(Head(seq), RMinOf(Tail(seq)))

\* A slip: rain now only strictly above the intensity threshold.
_build_motion_inputs_strict(local_series, distance_series_px, minutes_series, nearby_distance_px, rain_now_intensity_threshold) ==
    LET now_local == local_series[1]
        now_distance == distance_series_px[1]
        valid_points == ValidPoints(minutes_series, distance_series_px)
    IN [now_local |-> now_local,
        now_distance |-> now_distance,
        rain_now |-> RLt(rain_now_intensity_threshold, now_local)
                        \/ RLe(now_distance, Float(RAIN_NOW_DISTANCE_PX)),
        heavy_now |-> RLe(HEAVY_RAIN_INTENSITY, now_local),
        nearby_signal |-> RLe(now_distance, Float(nearby_distance_px)),
        valid_points |-> valid_points,
        valid_span_minutes |->
            IF valid_points = <<>> THEN Float(0)
            ELSE RSub(RMaxOf(Xs(valid_points)), RMinOf(Xs(valid_points)))]

_build_motion_inputs(local_series, distance_series_px, minutes_series, nearby_distance_px, rain_now_intensity_threshold) ==
    LET now_local == local_series[1]
        now_distance == distance_series_px[1]
        valid_points == ValidPoints(minutes_series, distance_series_px)
    IN [now_local |-> now_local,
        now_distance |-> now_distance,
        rain_now |-> RLe(rain_now_intensity_threshold, now_local)
                        \/ RLe(now_distance, Float(RAIN_NOW_DISTANCE_PX)),
        heavy_now |-> RLe(HEAVY_RAIN_INTENSITY, now_local),
        nearby_signal |-> RLe(now_distance, Float(nearby_distance_px)),
        valid_points |-> valid_points,
        valid_span_minutes |->
            IF valid_points = <<>> THEN Float(0)
            ELSE RSub(RMaxOf(Xs(valid_points)), RMinOf(Xs(valid_points)))]

_estimate_motion(inputs, total_points, motion_search_radius) ==
    LET estimate(eta_intercept, eta_slope, eta_r2, valid_approach, eta_minutes,
                 proximity, valid_ratio) ==
            [eta_minutes |-> eta_minutes, eta_bucket |-> _bucket_eta(eta_minutes),
             intercept_px |-> eta_intercept, slope_px_per_min |-> eta_slope, r2 |-> eta_r2,
             confidence |->
                _clamp(RAdd(RAdd(RAdd(Frac(1, 4),
                                      RMul(Frac(35, 100),
                                           IF eta_r2.defined THEN eta_r2.v ELSE Float(0))),
                                 RMul(Frac(2, 10), valid_ratio)),
                            RMul(Frac(2, 10), proximity)),
                       Float(0), Float(1)),
             proximity |-> proximity, valid_ratio |-> valid_ratio,
             valid_points |-> Len(inputs.valid_points),
             valid_span_minutes |-> inputs.valid_span_minutes,
             valid_approach |-> valid_approach]
        distance_for_proximity(eta_intercept) ==
            IF eta_intercept.defined /\ isfinite(eta_intercept.v) THEN eta_intercept.v
            ELSE IF isfinite(inputs.now_distance) THEN inputs.now_distance
            ELSE Float(motion_search_radius)
        approach(eta_intercept, eta_slope, eta_r2, valid_approach) ==
            estimate(eta_intercept, eta_slope, eta_r2, valid_approach,
                     IF inputs.rain_now THEN Eta(0)
                     ELSE IF valid_approach /\ eta_intercept.defined
                     THEN Eta(round(_clamp(RDiv(eta_intercept.v, eta_slope.v),
                                           Float(1), Float(60))))
                     ELSE NoEta,
                     RSub(Float(1),
                          RDiv(RMin(distance_for_proximity(eta_intercept),
                                    Float(motion_search_radius)),
                               RMax(Float(1), Float(motion_search_radius)))),
                     Frac(Len(inputs.valid_points),
                          IF total_points > 1 THEN total_points ELSE 1))
        unpacked(eta_intercept, eta_slope, eta_r2) ==
            approach(eta_intercept, eta_slope, eta_r2,
                     eta_slope.defined /\ RLe(MIN_APPROACH_SLOPE_PX_PER_MINUTE, eta_slope.v))
        fitted(regression) ==
            IF regression.fitted
            THEN unpacked(Defined(regression.intercept), Defined(regression.slope),
                          Defined(regression.r2))
            ELSE unpacked(Undefined, Undefined, Undefined)
    IN fitted(IF Len(inputs.valid_points) >= MIN_POINTS_FOR_REGRESSION
                   /\ RLe(Float(MIN_SPAN_MINUTES_FOR_REGRESSION), inputs.valid_span_minutes)
              THEN _linear_fit(inputs.valid_points)
              ELSE NoFit)

\* A slip: the rain-now row tested before the heavy-now row.
_classify_risk_rain_first(heavy_now, rain_now, nearby_signal, motion) ==
    IF rain_now THEN <<"medium", 0, "now">>
    ELSE IF heavy_now THEN <<"high", 0, "now">>
    ELSE IF motion.eta_minutes.defined /\ motion.eta_minutes.v <= 10
              /\ RLe(Frac(45, 100), motion.confidence)
    THEN <<"high", motion.eta_minutes.v, motion.eta_bucket>>
    ELSE IF motion.eta_minutes.defined /\ motion.eta_minutes.v <= 30
              /\ RLe(Frac(35, 100), motion.confidence)
    THEN <<"medium", motion.eta_minutes.v, motion.eta_bucket>>
    ELSE IF ~motion.eta_minutes.defined /\ nearby_signal
    THEN <<"medium", 30, "unknown">>
    ELSE <<"low", 30, _bucket_eta(motion.eta_minutes)>>

\* (level, eta_minutes, eta_bucket)
_classify_risk(heavy_now, rain_now, nearby_signal, motion) ==
    IF heavy_now THEN <<"high", 0, "now">>
    ELSE IF rain_now THEN <<"medium", 0, "now">>
    ELSE IF motion.eta_minutes.defined /\ motion.eta_minutes.v <= 10
              /\ RLe(Frac(45, 100), motion.confidence)
    THEN <<"high", motion.eta_minutes.v, motion.eta_bucket>>
    ELSE IF motion.eta_minutes.defined /\ motion.eta_minutes.v <= 30
              /\ RLe(Frac(35, 100), motion.confidence)
    THEN <<"medium", motion.eta_minutes.v, motion.eta_bucket>>
    ELSE IF ~motion.eta_minutes.defined /\ nearby_signal
    THEN <<"medium", 30, "unknown">>
    ELSE <<"low", 30, _bucket_eta(motion.eta_minutes)>>

\* A slip: the final clamp to [0, 100] left out.
_score_risk_unclamped(level, now_local, eta_minutes, confidence) ==
    LET eta_bonus == IF ~eta_minutes.defined THEN 0
                     ELSE IF eta_minutes.v <= 10 THEN 10
                     ELSE IF eta_minutes.v <= 20 THEN 5
                     ELSE 0
        base_score == CASE level = "low" -> 20 [] level = "medium" -> 55 [] level = "high" -> 75
    IN round(RAdd(RAdd(RAdd(Float(base_score), RMul(RMin(now_local, Float(5)), Float(4))),
                       Float(eta_bonus)),
                  Float(round(RMul(confidence, Float(10))))))

_score_risk(level, now_local, eta_minutes, confidence) ==
    LET eta_bonus == IF ~eta_minutes.defined THEN 0
                     ELSE IF eta_minutes.v <= 10 THEN 10
                     ELSE IF eta_minutes.v <= 20 THEN 5
                     ELSE 0
        base_score == CASE level = "low" -> 20 [] level = "medium" -> 55 [] level = "high" -> 75
    IN round(_clamp(Float(round(RAdd(RAdd(RAdd(Float(base_score),
                                             RMul(RMin(now_local, Float(5)), Float(4))),
                                        Float(eta_bonus)),
                                   Float(round(RMul(confidence, Float(10))))))),
                    Float(0), Float(100)))

\* A slip: nearby_cells is appended before approaching_fast.
_collect_reasons_nearby_first(rain_now, heavy_now, nearby_signal, motion) ==
    LET reasons ==
            (IF rain_now THEN <<"rain_now">> ELSE <<>>)
            \o (IF heavy_now THEN <<"heavy_rain_now">> ELSE <<>>)
            \o (IF motion.eta_minutes.defined /\ ~rain_now THEN <<"eta_estimated">> ELSE <<>>)
            \o (IF nearby_signal THEN <<"nearby_cells">> ELSE <<>>)
            \o (IF motion.valid_approach THEN <<"approaching_fast">> ELSE <<>>)
            \o (IF ~motion.eta_minutes.defined /\ nearby_signal
                THEN <<"eta_unknown_conservative">> ELSE <<>>)
    IN IF reasons = <<>> THEN <<"weak_signal">> ELSE reasons

_collect_reasons(rain_now, heavy_now, nearby_signal, motion) ==
    LET reasons ==
            (IF rain_now THEN <<"rain_now">> ELSE <<>>)
            \o (IF heavy_now THEN <<"heavy_rain_now">> ELSE <<>>)
            \o (IF motion.eta_minutes.defined /\ ~rain_now THEN <<"eta_estimated">> ELSE <<>>)
            \o (IF motion.valid_approach THEN <<"approaching_fast">> ELSE <<>>)
            \o (IF nearby_signal THEN <<"nearby_cells">> ELSE <<>>)
            \o (IF ~motion.eta_minutes.defined /\ nearby_signal
                THEN <<"eta_unknown_conservative">> ELSE <<>>)
    IN IF reasons = <<>> THEN <<"weak_signal">> ELSE reasons

_build_risk_debug(now_local, rain_now, nearby_signal, distance_series_px, minutes_series, motion) ==
    [now_local |-> now_local, rain_now |-> rain_now, nearby_signal |-> nearby_signal,
     distance_series_px |->
        [i \in 1..Len(distance_series_px) |->
            IF ~isfinite(distance_series_px[i]) THEN Undefined
            ELSE Defined(round3(distance_series_px[i]))],
     minutes_series |-> [i \in 1..Len(minutes_series) |-> round3(minutes_series[i])],
     motion |-> motion]

compute_risk_from_signals(local_series, distance_series_px, minutes_series, motion_search_radius, nearby_distance_px, rain_now_intensity_threshold) ==
    LET result(inputs, motion, triple) ==
            [level |-> triple[1],
             score |-> _score_risk(triple[1], inputs.now_local, motion.eta_minutes,
                                   motion.confidence),
             eta_minutes |-> triple[2], eta_bucket |-> triple[3],
             rain_now |-> inputs.rain_now, confidence |-> motion.confidence,
             reasons |-> _collect_reasons(inputs.rain_now, inputs.heavy_now,
                                          inputs.nearby_signal, motion),
             debug |-> _build_risk_debug(inputs.now_local, inputs.rain_now,
                                         inputs.nearby_signal, distance_series_px,
                                         minutes_series, motion)]
        classified(inputs, motion) ==
            result(inputs, motion,
                   _classify_risk(inputs.heavy_now, inputs.rain_now, inputs.nearby_signal,
                                  motion))
        estimated(inputs) ==
            classified(inputs,
                       _estimate_motion(inputs, Len(distance_series_px),
                                        motion_search_radius))
    IN IF local_series = <<>> \/ distance_series_px = <<>> THEN _no_signal_result
       ELSE estimated(_build_motion_inputs(local_series, distance_series_px,
                                           minutes_series, nearby_distance_px,
                                           rain_now_intensity_threshold))

(***************************************************************************)
(* Calls of should_send_alert on arbitrary arguments                       *)
(***************************************************************************)

\* risk.level and risk.eta_bucket as risk.py produces them.
Levels == {"low", "medium", "high"}
EtaBuckets == {"now", "5_1", "15_6", "30_16", "30_plus", "unknown"}

\* Scores in two different deciles.
PolicyScores == {58, 73}

\* Stored lastLevel values ("" stands for a missing key).
StoredLevels == {"", "none", "low", "medium", "high"}
StoredBuckets == {""} \cup EtaBuckets

\* The evaluation times: 06:59, 07:00, 12:00 and 23:00 Singapore time of day 1.
PolicyTimes == {SgTime(1, 6, 59), SgTime(1, 7, 0), SgTime(1, 12, 0), SgTime(1, 23, 0)}

\* (quiet_start, quiet_end): a window wrapping midnight, one within a day and an
\* empty one; and two settings with a string that is not HH:MM ("24:00", "7").
WellFormedQuiet ==
    { <<HHMM(23, 0), HHMM(7, 0)>>, <<HHMM(9, 0), HHMM(17, 0)>>, <<HHMM(12, 0), HHMM(12, 0)>> }
QuietSettings ==
    WellFormedQuiet \cup { <<HHMM(24, 0), HHMM(7, 0)>>, <<HHMM(23, 0), <<Piece(7)>> >> }

PolicyCooldowns == {0, 30}

\* Minutes between the stored lastSentAt and the evaluation.
SentAgo == {10, 30}

\* A stored alert state: any subset of the four keys the policy reads.  The
\* stored hash is the hash of the risk under evaluation or another one.
StoredStates(risk, now_sg) ==
    { [k \in (IF lvl = "" THEN {} ELSE {"lastLevel"})
              \cup (IF bkt = "" THEN {} ELSE {"lastEtaBucket"})
              \cup (IF hsh = "" THEN {} ELSE {"lastSignalHash"})
              \cup (IF snt.kind = "None" THEN {} ELSE {"lastSentAt"}) |->
         CASE k = "lastLevel" -> lvl
           [] k = "lastEtaBucket" -> bkt
           [] k = "lastSignalHash" -> hsh
           [] k = "lastSentAt" -> snt] :
        lvl \in StoredLevels, bkt \in StoredBuckets,
        hsh \in {"", "low:2:unknown", _signal_hash(risk.level, risk.score, risk.eta_bucket)},
        snt \in {None, BadIso}
                 \cup {isoformat([abs |-> now_sg.abs - ago, off |-> SG_TZ]) : ago \in SentAgo} }

Idle == [raised |-> FALSE, notify |-> FALSE, reason |-> "idle",
         signal_hash |-> "", next_state |-> EmptyState]

NoCall == [risk |-> [level |-> "low", score |-> 0, eta_bucket |-> "unknown"],
           previous_state |-> EmptyState, now_sg |-> SgTime(0, 0, 0),
           quiet |-> <<HHMM(23, 0), HHMM(7, 0)>>, cooldown_minutes |-> 30]

\* No RiskResult yet.
NoResult == [_no_signal_result EXCEPT !.level = "none", !.reasons = <<>>]

\* The parts of the state a specification does not use stay at these values.
NoSignals == [local_series |-> <<>>, distance_series_px |-> <<>>, minutes_series |-> <<>>,
              motion_search_radius |-> 0, nearby_distance_px |-> 0,
              rain_now_intensity_threshold |-> [n |-> 0, d |-> 1]]
HandlerAtRest ==
    /\ alertState = EmptyState
    /\ clock = 0
    /\ invocations = 0
    /\ lastRun = [outcome |-> "none", reason |-> "", now |-> 0, previous_state |-> EmptyState,
                  risk |-> NoResult, decision |-> Idle, fetched |-> 0, recent |-> 0,
                  effects |-> <<>>, response |-> [ok |-> FALSE]]
    /\ sentLog = {}
RiskAtRest ==
    /\ sigIn = NoSignals
    /\ sigOut = NoResult
NoFrameCall == [frames |-> <<>>, history_window_minutes |-> 0, poll_interval_minutes |-> 0]
NoSeries == [local_series |-> <<>>, distance_series_px |-> <<>>, minutes_series |-> <<>>]
NotFiltered == [calls |-> 0, once |-> <<>>, twice |-> <<>>, evaluated |-> FALSE,
                series |-> NoSeries]
FilterAtRest ==
    /\ frmIn = NoFrameCall
    /\ frmOut = NotFiltered
NoCandidateCall ==
    [frame_count |-> 0, poll_interval_minutes |-> 1, now |-> [abs |-> 0, off |-> 0]]
NotGenerated == [called |-> FALSE, candidates |-> <<>>]
CandidatesAtRest ==
    /\ candIn = NoCandidateCall
    /\ candOut = NotGenerated
NoEvaluation == [risk |-> NoCall.risk, now_sg |-> NoCall.now_sg, decision |-> Idle]
NoChain == [length |-> 0, before |-> NoEvaluation, notified |-> 0, constant |-> TRUE]
ChainAtRest == chain = NoChain
NoneRunning == [of |-> <<>>, order |-> <<>>]
RunningAtRest == running = NoneRunning

InitPolicy ==
    /\ \E lvl \in Levels, sc \in PolicyScores, bkt \in EtaBuckets,
          now_sg \in PolicyTimes, q \in QuietSettings, cd \in PolicyCooldowns :
          LET risk == [level |-> lvl, score |-> sc, eta_bucket |-> bkt]
          IN \E st \in StoredStates(risk, now_sg) :
                polIn = [risk |-> risk, previous_state |-> st, now_sg |-> now_sg,
                         quiet |-> q, cooldown_minutes |-> cd]
    /\ polOut = Idle
    /\ RiskAtRest
    /\ HandlerAtRest
    /\ FilterAtRest
    /\ CandidatesAtRest
    /\ ChainAtRest
    /\ RunningAtRest

Decide ==
    /\ polOut = Idle
    /\ polOut' = should_send_alert(polIn.risk, polIn.previous_state, polIn.now_sg,
                                   polIn.quiet[1], polIn.quiet[2], polIn.cooldown_minutes)
    /\ UNCHANGED <<polIn, sigIn, sigOut, alertState, clock, invocations, lastRun, sentLog>>
    /\ UNCHANGED <<frmIn, frmOut, candIn, candOut, chain, running>>

NextPolicy == Decide

(***************************************************************************)
(* Calls of compute_risk_from_signals on arbitrary series                  *)
(***************************************************************************)

\* The length of the longest series.
MaxFrames == 4

\* local[0]: nothing, a trace, the default rain-now threshold, heavy, beyond the scale.
LocalNow == {Float(0), Frac(1, 8), Frac(4, 5), Frac(5, 2), Float(6)}

\* Distances to the nearest rain pixel (INF: none within the search radius), in
\* the newest frame and in the earlier ones.
NowDistances == {Float(0), Float(2), Float(4), Float(16), Float(60), INF}
EarlierDistances == {Float(10), Float(16), Float(22), INF}
DistanceSeries(len) ==
    { [i \in 1..len |-> IF i = 1 THEN first ELSE rest[i]] :
        first \in NowDistances, rest \in [1..len -> EarlierDistances] }

\* Minutes before the newest frame, frame by frame: the poll interval of 5
\* minutes, a gap, a span under 10 minutes, and frames that share one instant.
MinuteSeries(len) ==
    { [i \in 1..len |-> Float(5 * (i - 1))],
      [i \in 1..len |-> Float(IF i = 1 THEN 0 ELSE 5 * i)],
      [i \in 1..len |-> Float(3 * (i - 1))],
      [i \in 1..len |-> Float(0)] }

\* (motion_search_radius, nearby_distance_px, rain_now_intensity_threshold): the
\* defaults of config.py, a short search radius, and a high rain-now threshold.
SignalConfigs == { <<80, 25, Frac(4, 5)>>, <<10, 25, Frac(4, 5)>>, <<80, 25, Float(3)>> }

InitRisk ==
    /\ \/ \E len \in 0..MaxFrames :
            \E first \in LocalNow, dist \in DistanceSeries(len), mins \in MinuteSeries(len),
               cfg \in SignalConfigs :
               sigIn = [local_series |-> [i \in 1..len |-> IF i = 1 THEN first ELSE Float(0)],
                        distance_series_px |-> dist, minutes_series |-> mins,
                        motion_search_radius |-> cfg[1], nearby_distance_px |-> cfg[2],
                        rain_now_intensity_threshold |-> cfg[3]]
       \/ \E first \in LocalNow, dist \in DistanceSeries(1), cfg \in SignalConfigs,
             missing \in {"local_series", "distance_series_px"} :
            sigIn = [local_series |-> IF missing = "local_series" THEN <<>> ELSE <<first>>,
                     distance_series_px |->
                        IF missing = "distance_series_px" THEN <<>> ELSE dist,
                     minutes_series |-> <<Float(0)>>,
                     motion_search_radius |-> cfg[1], nearby_distance_px |-> cfg[2],
                     rain_now_intensity_threshold |-> cfg[3]]
    /\ sigOut = NoResult
    /\ polIn = NoCall
    /\ polOut = Idle
    /\ HandlerAtRest
    /\ FilterAtRest
    /\ CandidatesAtRest
    /\ ChainAtRest
    /\ RunningAtRest

Compute ==
    /\ sigOut = NoResult
    /\ sigOut' = compute_risk_from_signals(sigIn.local_series, sigIn.distance_series_px,
                                            sigIn.minutes_series, sigIn.motion_search_radius,
                                            sigIn.nearby_distance_px,
                                            sigIn.rain_now_intensity_threshold)
    /\ UNCHANGED <<sigIn, polIn, polOut, alertState, clock, invocations, lastRun, sentLog>>
    /\ UNCHANGED <<frmIn, frmOut, candIn, candOut, chain, running>>

NextRisk == Compute

SpecRisk == InitRisk /\ [][NextRisk]_vars

SpecPolicy == InitPolicy /\ [][NextPolicy]_vars

(***************************************************************************)
(* Evaluations in a row: each one is given the next_state of the last      *)
(***************************************************************************)
\* The evaluations of one chain.
MaxChain == 3

\* Noon and 23:00 Singapore time of day 1 and the noon of the day after.
ChainTimes == {SgTime(1, 12, 0), SgTime(1, 23, 0), SgTime(2, 12, 0)}

\* A near bucket, a farther one and the unknown one.
ChainBuckets == {"5_1", "15_6", "unknown"}

\* Quiet hours from 23:00 to 07:00, and none.
ChainQuiet == { <<HHMM(23, 0), HHMM(7, 0)>>, <<HHMM(12, 0), HHMM(12, 0)>> }

InitChain ==
    /\ polIn = NoCall
    /\ polOut = Idle
    /\ chain = NoChain
    /\ RunningAtRest
    /\ RiskAtRest
    /\ HandlerAtRest
    /\ FilterAtRest
    /\ CandidatesAtRest

\* One evaluation: the stored state is absent at first and then the
\* next_state of the evaluation before; the clock does not go back and the
\* profile (quiet hours, cooldown) is the one of the first evaluation.
Evaluate ==
    /\ chain.length < MaxChain
    /\ \E lvl \in Levels, sc \in PolicyScores, bkt \in ChainBuckets, now_sg \in ChainTimes,
          q \in (IF chain.length = 0 THEN ChainQuiet ELSE {polIn.quiet}),
          cd \in (IF chain.length = 0 THEN PolicyCooldowns ELSE {polIn.cooldown_minutes}) :
          /\ chain.length = 0 \/ now_sg.abs >= polIn.now_sg.abs
          /\ \E previous_state \in {IF chain.length = 0 THEN EmptyState ELSE polOut.next_state},
                risk \in {[level |-> lvl, score |-> sc, eta_bucket |-> bkt]} :
                \E decision \in {should_send_alert(risk, previous_state, now_sg,
                                                    q[1], q[2], cd)} :
                   /\ polIn' = [risk |-> risk, previous_state |-> previous_state,
                                now_sg |-> now_sg, quiet |-> q, cooldown_minutes |-> cd]
                   /\ polOut' = decision
                   /\ chain' =
                         [length |-> chain.length + 1,
                          before |-> IF chain.length = 0 THEN NoEvaluation
                                     ELSE [risk |-> polIn.risk, now_sg |-> polIn.now_sg,
                                           decision |-> polOut],
                          notified |-> chain.notified + (IF decision.notify THEN 1 ELSE 0),
                          constant |-> /\ chain.constant
                                       /\ \/ chain.length = 0
                                          \/ /\ polIn.risk.level = lvl
                                             /\ polIn.risk.eta_bucket = bkt]
    /\ UNCHANGED <<sigIn, sigOut, alertState, clock, invocations, lastRun, sentLog>>
    /\ UNCHANGED <<frmIn, frmOut, candIn, candOut, running>>

NextChain == Evaluate

SpecChain == InitChain /\ [][NextChain]_vars

(***************************************************************************)
(* radar.py, risk.py: from radar frames to the signal series               *)
(***************************************************************************)

\* timestamp_token: strftime("%Y%m%d%H%M") of a datetime, i.e. its wall clock.
\* A token is [ok, t]: ok when strptime accepts it, t the wall clock it shows.
timestamp_token(dt) == [ok |-> TRUE, t |-> Wall(dt)]

\* _parse_token: the token's wall clock on the Singapore clock, or None.
_parse_token(token) ==
    IF token.ok THEN [parsed |-> TRUE, dt |-> [abs |-> token.t - SG_TZ, off |-> SG_TZ]]
    ELSE [parsed |-> FALSE, dt |-> [abs |-> 0, off |-> SG_TZ]]

\* floor_minutes: the minute of the hour floored to a multiple of step_minutes.
floor_minutes(dt, step_minutes) ==
    LET minute == Wall(dt) % 60
    IN [abs |-> dt.abs - minute + (minute \div step_minutes) * step_minutes, off |-> dt.off]

\* A slip: the slots are taken on the clock of now, not on the Singapore clock.
generate_radar_candidates_on_own_clock(frame_count, poll_interval_minutes, now) ==
    LET rounded == floor_minutes(now, poll_interval_minutes)
    IN [i \in 1..frame_count |->
          [index |-> i - 1,
           timestamp_token |->
              timestamp_token([abs |-> rounded.abs - (i - 1) * poll_interval_minutes,
                               off |-> rounded.off])]]

\* generate_radar_candidates: index and token of the frame_count latest slots.
generate_radar_candidates(frame_count, poll_interval_minutes, now) ==
    LET rounded == floor_minutes(to_singapore(now), poll_interval_minutes)
    IN [i \in 1..frame_count |->
          [index |-> i - 1,
           timestamp_token |->
              timestamp_token([abs |-> rounded.abs - (i - 1) * poll_interval_minutes,
                               off |-> rounded.off])]]

\* sorted(..., reverse=True) on the parsed time: a stable insertion of one item.
\* A slip: an item goes before the items of equal time, as an unstable sort may
\* place it.
InsertBeforeEqual(item, sorted) ==
    LET later(other) == other[1].abs > item[1].abs
        notLater(other) == ~later(other)
    IN SelectSeq(sorted, later) \o <<item>> \o SelectSeq(sorted, notLater)

\* A slip: no sort at all.
Unsorted(items) == items

RECURSIVE InsertByTime(_, _)
InsertByTime(item, sorted) ==
    IF sorted = <<>> THEN <<item>>
    ELSE IF Head(sorted)[1].abs >= item[1].abs
    THEN <<Head(sorted)>> \o InsertByTime(item, Tail(sorted))
    ELSE <<item>> \o sorted

RECURSIVE SortNewestFirst(_)
SortNewestFirst(items) ==
    IF items = <<>> THEN <<>>
    ELSE InsertByTime(items[Len(items)], SortNewestFirst(SubSeq(items, 1, Len(items) - 1)))

\* A slip: the window is used as it is, without max(0, .).
filter_recent_frames_unclamped(frames, history_window_minutes) ==
    LET parses(frame) == _parse_token(frame.timestamp_token).parsed
        stamp(parsed) ==
            [i \in 1..Len(parsed) |->
                <<_parse_token(parsed[i].timestamp_token).dt, parsed[i]>>]
        within(stamped, newest, lower_bound_minutes) ==
            LET inWindow(item) == /\ 0 <= newest - item[1].abs
                                  /\ newest - item[1].abs <= lower_bound_minutes
            IN SortNewestFirst(SelectSeq(stamped, inWindow))
        frames_of(recent) == [i \in 1..Len(recent) |-> recent[i][2]]
        select(stamped) ==
            IF stamped = <<>> THEN frames
            ELSE frames_of(within(stamped,
                                  CHOOSE t \in {stamped[i][1].abs : i \in 1..Len(stamped)} :
                                      \A i \in 1..Len(stamped) : stamped[i][1].abs <= t,
                                  history_window_minutes))
    IN select(stamp(SelectSeq(frames, parses)))

filter_recent_frames(frames, history_window_minutes) ==
    LET parses(frame) == _parse_token(frame.timestamp_token).parsed
        stamp(parsed) ==
            [i \in 1..Len(parsed) |->
                <<_parse_token(parsed[i].timestamp_token).dt, parsed[i]>>]
        within(stamped, newest, lower_bound_minutes) ==
            LET inWindow(item) == /\ 0 <= newest - item[1].abs
                                  /\ newest - item[1].abs <= lower_bound_minutes
            IN SortNewestFirst(SelectSeq(stamped, inWindow))
        frames_of(recent) == [i \in 1..Len(recent) |-> recent[i][2]]
        select(stamped) ==
            IF stamped = <<>> THEN frames
            ELSE frames_of(within(stamped,
                                  CHOOSE t \in {stamped[i][1].abs : i \in 1..Len(stamped)} :
                                      \A i \in 1..Len(stamped) : stamped[i][1].abs <= t,
                                  IF history_window_minutes > 0 THEN history_window_minutes
                                  ELSE 0))
    IN select(stamp(SelectSeq(frames, parses)))

\* evaluate_risk_from_frames.  An image is given by what the two samplers
\* return for it at the target pixel: image.local is sample_average_intensity,
\* image.dist is _nearest_rain_distance.
\* A slip: the minutes are always counted from the position in the list.
signal_series_by_position(frames, poll_interval_minutes) ==
    [local_series |-> [i \in 1..Len(frames) |-> frames[i].image.local],
     distance_series_px |-> [i \in 1..Len(frames) |-> frames[i].image.dist],
     minutes_series |-> [i \in 1..Len(frames) |-> Float((i - 1) * poll_interval_minutes)]]

\* The loop of evaluate_risk_from_frames: one sample of each kind per frame.
signal_series(frames, poll_interval_minutes) ==
    LET newest_dt == _parse_token(frames[1].timestamp_token)
        minutes_from_now(index) ==
            LET frame_dt == _parse_token(frames[index].timestamp_token)
            IN IF newest_dt.parsed /\ frame_dt.parsed
               THEN RMax(Float(0), Float(newest_dt.dt.abs - frame_dt.dt.abs))
               ELSE Float((index - 1) * poll_interval_minutes)
    IN [local_series |-> [i \in 1..Len(frames) |-> frames[i].image.local],
        distance_series_px |-> [i \in 1..Len(frames) |-> frames[i].image.dist],
        minutes_series |-> [i \in 1..Len(frames) |-> minutes_from_now(i)]]

evaluate_risk_from_frames(frames, poll_interval_minutes, motion_search_radius, nearby_distance_px, rain_now_intensity_threshold) ==
    IF frames = <<>> THEN _no_signal_result
    ELSE
      LET call(series) ==
              compute_risk_from_signals(series.local_series, series.distance_series_px,
                                        series.minutes_series, motion_search_radius,
                                        nearby_distance_px, rain_now_intensity_threshold)
      IN call(signal_series(frames, poll_interval_minutes))

(***************************************************************************)
(* Calls of filter_recent_frames on arbitrary frame lists                  *)
(***************************************************************************)
\* The frames of one list.
MaxListed == 3

\* A token that strptime rejects.
BadToken == [ok |-> FALSE, t |-> 0]

\* Tokens of 14:00, 13:50, 13:30 and 13:25 of day 1, and a malformed one.
ListedTokens ==
    { timestamp_token(SgTime(1, 14, 0)), timestamp_token(SgTime(1, 13, 50)),
      timestamp_token(SgTime(1, 13, 30)), timestamp_token(SgTime(1, 13, 25)), BadToken }

\* A negative window, an empty one, and two that cut the list at a listed age.
Windows == {-5, 0, 10, 30}

\* The poll interval the minutes fall back to: the default one and a longer one.
ListedPolls == {5, 15}

InitFilter ==
    /\ \E len \in 0..MaxListed :
         \E tokens \in [1..len -> ListedTokens], w \in Windows, poll \in ListedPolls :
            frmIn = [frames |-> [i \in 1..len |->
                                   [index |-> i - 1, timestamp_token |-> tokens[i],
                                    image |-> [local |-> Float(i - 1), dist |-> Float(10 * i)]]],
                     history_window_minutes |-> w, poll_interval_minutes |-> poll]
    /\ frmOut = NotFiltered
    /\ CandidatesAtRest
    /\ ChainAtRest
    /\ RunningAtRest
    /\ polIn = NoCall
    /\ polOut = Idle
    /\ RiskAtRest
    /\ HandlerAtRest

FilterUnchanged ==
    UNCHANGED <<polIn, polOut, sigIn, sigOut, alertState, clock, invocations, lastRun,
                sentLog, frmIn, candIn, candOut, chain, running>>

\* filter_recent_frames(frames, w)
Filter ==
    /\ frmOut.calls = 0
    /\ frmOut' = [calls |-> 1,
                  once |-> filter_recent_frames(frmIn.frames, frmIn.history_window_minutes),
                  twice |-> <<>>, evaluated |-> FALSE, series |-> NoSeries]
    /\ FilterUnchanged

\* filter_recent_frames(filter_recent_frames(frames, w), w)
FilterAgain ==
    /\ frmOut.calls = 1
    /\ frmOut' = [frmOut EXCEPT
                    !.calls = 2,
                    !.twice = filter_recent_frames(frmOut.once, frmIn.history_window_minutes)]
    /\ FilterUnchanged

\* evaluate_risk_from_frames on the frames the filter returned, up to the
\* three series it hands to compute_risk_from_signals.
BuildSeries ==
    /\ frmOut.calls >= 1
    /\ ~frmOut.evaluated
    /\ frmOut.once # <<>>
    /\ frmOut' = [frmOut EXCEPT
                    !.evaluated = TRUE,
                    !.series = signal_series(frmOut.once, frmIn.poll_interval_minutes)]
    /\ FilterUnchanged

NextFilter == Filter \/ FilterAgain \/ BuildSeries

SpecFilter == InitFilter /\ [][NextFilter]_vars

(***************************************************************************)
(* Calls of generate_radar_candidates                                      *)
(***************************************************************************)
\* The most candidates one call is asked for.
MaxCandidates == 3

\* Poll intervals: every minute, the default, one that does not divide the
\* hour, a quarter of an hour.
PollIntervals == {1, 5, 7, 15}

\* now: a naive or UTC datetime and the same instant on the Singapore clock,
\* in the afternoon, just before midnight and just after it (Singapore time).
CandidateNows ==
    { [abs |-> sg.abs, off |-> off] :
        sg \in {SgTime(1, 14, 7), SgTime(1, 14, 0), SgTime(1, 23, 59), SgTime(2, 0, 2)},
        off \in {0, SG_TZ} }

InitCandidates ==
    /\ \E frame_count \in 0..MaxCandidates, poll \in PollIntervals, now \in CandidateNows :
          candIn = [frame_count |-> frame_count, poll_interval_minutes |-> poll, now |-> now]
    /\ candOut = NotGenerated
    /\ FilterAtRest
    /\ ChainAtRest
    /\ RunningAtRest
    /\ polIn = NoCall
    /\ polOut = Idle
    /\ RiskAtRest
    /\ HandlerAtRest

Generate ==
    /\ ~candOut.called
    /\ candOut' = [called |-> TRUE,
                   candidates |-> generate_radar_candidates(candIn.frame_count,
                                                            candIn.poll_interval_minutes,
                                                            candIn.now)]
    /\ UNCHANGED <<polIn, polOut, sigIn, sigOut, alertState, clock, invocations, lastRun,
                   sentLog, frmIn, frmOut, candIn, chain, running>>

NextCandidates == Generate

SpecCandidates == InitCandidates /\ [][NextCandidates]_vars

(***************************************************************************)
(* handler.py: one scheduled invocation after another                      *)
(***************************************************************************)

\* load_config with the environment's defaults, and the profile's quiet hours
\* (seeded from the same defaults).
config ==
    [cooldown_minutes |-> 30, poll_interval_minutes |-> 5, history_window_minutes |-> 30,
     motion_search_radius |-> 80, nearby_distance_px |-> 25,
     rain_now_intensity_threshold |-> Frac(4, 5),
     quiet_start |-> HHMM(23, 0), quiet_end |-> HHMM(7, 0)]

\* config.frame_count: the slots one invocation asks the radar for.
FrameCount == 3

\* The invocations of one run of the model.
MaxInvocations == 3

\* What the radar shows around the user, newest slot first; an image is the pair
\* of samples the risk engine takes from it.
Image(local, dist) == [local |-> local, dist |-> dist]
Skies ==
    { [i \in 1..FrameCount |-> Image(Float(0), INF)],
      [i \in 1..FrameCount |-> Image(Float(0), Float(16))],
      [i \in 1..FrameCount |-> Image(Float(0), Float(6 * i - 2))],
      [i \in 1..FrameCount |-> Image(Float(0), IF i <= 2 THEN Float(16) ELSE Float(22))],
      [i \in 1..FrameCount |-> Image(Frac(4, 5), Float(2))],
      [i \in 1..FrameCount |-> Image(Frac(5, 2), Float(0))] }

\* The candidates fetch_radar_frames got a PNG for: all, all but the newest, none.
FetchOutcomes == {1..FrameCount, 2..FrameCount, {}}

\* The minutes from one invocation to the next.
Periods == {5, 30}

\* The first invocation: 14:00 or 22:50 Singapore time of day 1.
FirstInvocations == {SgTime(1, 14, 0).abs, SgTime(1, 22, 50).abs}

\* datetime.now(timezone.utc) at a whole minute.
UtcNow(minutes) == [abs |-> minutes, off |-> 0]

\* fetch_radar_frames and decode_png: the candidates that answered, in the
\* candidates' order, each with its image.
fetch_radar_frames(candidates, sky, fetched) ==
    LET answered(candidate) == candidate.index + 1 \in fetched
        frames == SelectSeq(candidates, answered)
    IN [i \in 1..Len(frames) |->
          [index |-> frames[i].index, timestamp_token |-> frames[i].timestamp_token,
           image |-> sky[frames[i].index + 1]]]

FrameFetchResult(frames, inspected_candidates, reason) ==
    [frames |-> frames, inspected_candidates |-> inspected_candidates, reason |-> reason]

fetch_and_decode_recent_frames(now, sky, fetched) ==
    LET result(candidates, decoded, recent) ==
            IF decoded = <<>> THEN FrameFetchResult(<<>>, Len(candidates), "no_radar_frames")
            ELSE IF recent = <<>>
            THEN FrameFetchResult(<<>>, Len(candidates), "no_recent_radar_frames")
            ELSE FrameFetchResult(recent, Len(candidates), "None")
        filtered(candidates, decoded) ==
            result(candidates, decoded,
                   filter_recent_frames(decoded, config.history_window_minutes))
        fetch(candidates) == filtered(candidates, fetch_radar_frames(candidates, sky, fetched))
    IN fetch(generate_radar_candidates(FrameCount, config.poll_interval_minutes, now))

\* A slip: the snapshot is written without the fields of decision.next_state.
persist_alert_state_snapshot_only(decision, risk, now, newest_frame) ==
    [updatedAt |-> isoformat(now), lastScore |-> risk.score,
     lastEtaMinutes |-> risk.eta_minutes, lastEtaBucket |-> risk.eta_bucket,
     lastConfidence |-> risk.confidence, lastRadarToken |-> newest_frame.timestamp_token,
     lastEtaSlope |-> risk.debug.motion.slope_px_per_min,
     lastEtaR2 |-> risk.debug.motion.r2]

\* persist_alert_state: the item that replaces the stored one.  The later keys
\* of the dict literal win over those of decision.next_state.
persist_alert_state(decision, risk, now, newest_frame) ==
    [updatedAt |-> isoformat(now), lastScore |-> risk.score,
     lastEtaMinutes |-> risk.eta_minutes, lastEtaBucket |-> risk.eta_bucket,
     lastConfidence |-> risk.confidence, lastRadarToken |-> newest_frame.timestamp_token,
     lastEtaSlope |-> risk.debug.motion.slope_px_per_min,
     lastEtaR2 |-> risk.debug.motion.r2] @@ decision.next_state

\* The calls lambda_handler makes on the table and on Telegram: the operation,
\* whether it returned, and the item it wrote.
Call(op, ok, item) == [op |-> op, ok |-> ok, item |-> item]
get_profile == Call("get_profile", TRUE, EmptyState)
get_alert_state == Call("get_alert_state", TRUE, EmptyState)
send_telegram_message(ok) == Call("send_telegram_message", ok, EmptyState)
put_alert_state(item) == Call("put_alert_state", TRUE, item)

\* The dict lambda_handler returns when it has no frame to evaluate.
SkippedResponse(frame_result) ==
    IF frame_result.reason = "no_radar_frames"
    THEN [ok |-> TRUE, skipped |-> TRUE, reason |-> frame_result.reason,
          inspected_candidates |-> frame_result.inspected_candidates]
    ELSE [ok |-> TRUE, skipped |-> TRUE, reason |-> frame_result.reason]

build_handler_response(decision, risk, newest_frame) ==
    [ok |-> TRUE, notify |-> decision.notify, reason |-> decision.reason,
     risk |-> [level |-> risk.level, score |-> risk.score, eta_minutes |-> risk.eta_minutes,
               eta_bucket |-> risk.eta_bucket, rain_now |-> risk.rain_now,
               confidence |-> risk.confidence, reasons |-> risk.reasons,
               debug |-> risk.debug],
     frame_timestamp |-> newest_frame.timestamp_token]

\* No dict is returned: the exception leaves lambda_handler.
Propagated(error) == [ok |-> FALSE, error |-> error]

\* What the latest invocation did: how it ended, what it worked on, the frames
\* it fetched and kept, its calls in their order, and what it returned.
Run(outcome, reason, now, previous_state, risk, decision, fetched, recent, effects, response) ==
    [outcome |-> outcome, reason |-> reason, now |-> now, previous_state |-> previous_state,
     risk |-> risk, decision |-> decision, fetched |-> fetched, recent |-> recent,
     effects |-> effects, response |-> response]
NoRun == Run("none", "", 0, EmptyState, NoResult, Idle, 0, 0, <<>>, [ok |-> FALSE])

\* The instants an invocation can happen at.
Instants ==
    { first + short * 5 + long * 30 :
        first \in FirstInvocations,
        short \in 0..MaxInvocations, long \in 0..MaxInvocations }

\* The first half of lambda_handler, which depends on the clock and the radar
\* only: the frames of fetch_and_decode_recent_frames and their risk, tabulated
\* for every instant, sky and fetch outcome.
Evaluation(frame_result) ==
    [frame_result |-> frame_result,
     risk |-> IF frame_result.reason = "None"
              THEN evaluate_risk_from_frames(frame_result.frames,
                                             config.poll_interval_minutes,
                                             config.motion_search_radius,
                                             config.nearby_distance_px,
                                             config.rain_now_intensity_threshold)
              ELSE NoResult]
Evaluated ==
    [minutes \in Instants, sky \in Skies, fetched \in FetchOutcomes |->
        Evaluation(fetch_and_decode_recent_frames(UtcNow(minutes), sky, fetched))]

\* The second half up to the decision.
Decision(risk, previous_state, now) ==
    should_send_alert(risk, previous_state, to_singapore(now),
                      config.quiet_start, config.quiet_end, config.cooldown_minutes)

Tick(period) ==
    /\ invocations' = invocations + 1
    /\ clock' = clock + period
    /\ UNCHANGED <<polIn, polOut, sigIn, sigOut, frmIn, frmOut, candIn, candOut, chain, running>>

\* A slip: the alert state is read before the frames are looked at.
InvokeSkippedAfterRead ==
    /\ invocations < MaxInvocations
    /\ \E sky \in Skies, fetched \in FetchOutcomes, period \in Periods :
         \E frame_result \in {Evaluated[clock, sky, fetched].frame_result} :
            /\ frame_result.reason # "None"
            /\ Tick(period)
            /\ lastRun' = Run("skipped", frame_result.reason, clock, EmptyState,
                              NoResult, Idle, Cardinality(fetched), Len(frame_result.frames),
                              <<get_profile, get_alert_state>>,
                              SkippedResponse(frame_result))
            /\ UNCHANGED <<alertState, sentLog>>

\* lambda_handler returns "skipped": nothing is read, sent or written.
InvokeSkipped ==
    /\ invocations < MaxInvocations
    /\ \E sky \in Skies, fetched \in FetchOutcomes, period \in Periods :
         \E frame_result \in {Evaluated[clock, sky, fetched].frame_result} :
            /\ frame_result.reason # "None"
            /\ Tick(period)
            /\ lastRun' = Run("skipped", frame_result.reason, clock, EmptyState,
                              NoResult, Idle, Cardinality(fetched), Len(frame_result.frames),
                              <<get_profile>>, SkippedResponse(frame_result))
            /\ UNCHANGED <<alertState, sentLog>>

\* A slip: the item is merged into the stored one, whose other keys stay.
InvokeCompletedMerging ==
    /\ invocations < MaxInvocations
    /\ \E sky \in Skies, fetched \in FetchOutcomes :
         \E frame_result \in {Evaluated[clock, sky, fetched].frame_result},
            risk \in {Evaluated[clock, sky, fetched].risk} :
            /\ frame_result.reason = "None"
            /\ \E decision \in {Decision(risk, alertState, UtcNow(clock))} :
                  /\ ~decision.raised
                  /\ sentLog' =
                        IF decision.notify
                        THEN sentLog \cup {[hash |-> decision.signal_hash, at |-> clock]}
                        ELSE sentLog
                  /\ alertState' = persist_alert_state(decision, risk, UtcNow(clock),
                                                       frame_result.frames[1])
                                    @@ alertState
                  /\ lastRun' =
                        Run("completed", decision.reason, clock, alertState, risk, decision,
                            Cardinality(fetched), Len(frame_result.frames),
                            <<get_profile, get_alert_state>>
                               \o (IF decision.notify THEN <<send_telegram_message(TRUE)>>
                                   ELSE <<>>)
                               \o <<put_alert_state(persist_alert_state(
                                       decision, risk, UtcNow(clock), frame_result.frames[1]))>>,
                            build_handler_response(decision, risk, frame_result.frames[1]))
                  /\ \E period \in Periods : Tick(period)

\* lambda_handler runs to its end: read the state, decide, send when the
\* decision says so, write the state.
InvokeCompleted ==
    /\ invocations < MaxInvocations
    /\ \E sky \in Skies, fetched \in FetchOutcomes :
         \E frame_result \in {Evaluated[clock, sky, fetched].frame_result},
            risk \in {Evaluated[clock, sky, fetched].risk} :
            /\ frame_result.reason = "None"
            /\ \E decision \in {Decision(risk, alertState, UtcNow(clock))} :
                  /\ ~decision.raised
                  /\ sentLog' =
                        IF decision.notify
                        THEN sentLog \cup {[hash |-> decision.signal_hash, at |-> clock]}
                        ELSE sentLog
                  /\ alertState' = persist_alert_state(decision, risk, UtcNow(clock),
                                                       frame_result.frames[1])
                  /\ lastRun' =
                        Run("completed", decision.reason, clock, alertState, risk, decision,
                            Cardinality(fetched), Len(frame_result.frames),
                            <<get_profile, get_alert_state>>
                               \o (IF decision.notify THEN <<send_telegram_message(TRUE)>>
                                   ELSE <<>>)
                               \o <<put_alert_state(persist_alert_state(
                                       decision, risk, UtcNow(clock), frame_result.frames[1]))>>,
                            build_handler_response(decision, risk, frame_result.frames[1]))
                  /\ \E period \in Periods : Tick(period)

\* A slip: the state is written before the message is sent, so a failed
\* delivery leaves the new state behind.
InvokeSendFailedAfterWrite ==
    /\ invocations < MaxInvocations
    /\ \E sky \in Skies, fetched \in FetchOutcomes :
         \E frame_result \in {Evaluated[clock, sky, fetched].frame_result},
            risk \in {Evaluated[clock, sky, fetched].risk} :
            /\ frame_result.reason = "None"
            /\ \E decision \in {Decision(risk, alertState, UtcNow(clock))} :
                  /\ ~decision.raised
                  /\ decision.notify
                  /\ alertState' = persist_alert_state(decision, risk, UtcNow(clock),
                                                       frame_result.frames[1])
                  /\ lastRun' =
                        Run("send_failed", "RuntimeError", clock, alertState, risk, decision,
                            Cardinality(fetched), Len(frame_result.frames),
                            <<get_profile, get_alert_state, send_telegram_message(FALSE)>>,
                            Propagated("RuntimeError"))
                  /\ UNCHANGED sentLog
                  /\ \E period \in Periods : Tick(period)

\* send_telegram_message raises RuntimeError: the invocation ends before
\* persist_alert_state.
InvokeSendFailed ==
    /\ invocations < MaxInvocations
    /\ \E sky \in Skies, fetched \in FetchOutcomes :
         \E frame_result \in {Evaluated[clock, sky, fetched].frame_result},
            risk \in {Evaluated[clock, sky, fetched].risk} :
            /\ frame_result.reason = "None"
            /\ \E decision \in {Decision(risk, alertState, UtcNow(clock))} :
                  /\ ~decision.raised
                  /\ decision.notify
                  /\ lastRun' =
                        Run("send_failed", "RuntimeError", clock, alertState, risk, decision,
                            Cardinality(fetched), Len(frame_result.frames),
                            <<get_profile, get_alert_state, send_telegram_message(FALSE)>>,
                            Propagated("RuntimeError"))
                  /\ UNCHANGED <<alertState, sentLog>>
                  /\ \E period \in Periods : Tick(period)

Init ==
    /\ polIn = NoCall
    /\ polOut = Idle
    /\ RiskAtRest
    /\ alertState = EmptyState
    /\ clock \in FirstInvocations
    /\ invocations = 0
    /\ lastRun = NoRun
    /\ sentLog = {}
    /\ FilterAtRest
    /\ CandidatesAtRest
    /\ ChainAtRest
    /\ RunningAtRest

Next == InvokeSkipped \/ InvokeCompleted \/ InvokeSendFailed

Spec == Init /\ [][Next]_vars

(***************************************************************************)
(* Two invocations for the same user at once: lambda_handler step by step  *)
(***************************************************************************)
\* The invocations under way at once.
Concurrent == {1, 2}

\* The minutes between the start of one invocation and the start of the next.
ConcurrentGaps == {0, 5}

\* An invocation that has its frames and its risk: lambda_handler up to
\* evaluate_risk_from_frames.
Invocation(pc, now, risk, newest_frame, previous_state, decision, sent) ==
    [pc |-> pc, now |-> now, risk |-> risk, newest_frame |-> newest_frame,
     previous_state |-> previous_state, decision |-> decision, sent |-> sent]

\* One more read or write of the stored alert state.
Event(p, op) == [inv |-> p, op |-> op]

InitConcurrent ==
    /\ polIn = NoCall
    /\ polOut = Idle
    /\ RiskAtRest
    /\ alertState = EmptyState
    /\ clock \in FirstInvocations
    /\ invocations = 0
    /\ lastRun = NoRun
    /\ sentLog = {}
    /\ FilterAtRest
    /\ CandidatesAtRest
    /\ ChainAtRest
    /\ RunningAtRest

HandlerUnchanged ==
    UNCHANGED <<polIn, polOut, sigIn, sigOut, lastRun, frmIn, frmOut, candIn, candOut, chain>>

\* lambda_handler from its first line to evaluate_risk_from_frames, for an
\* invocation that is not skipped.
Start(p) ==
    /\ p \notin DOMAIN running.of
    /\ \E sky \in Skies, fetched \in FetchOutcomes, gap \in ConcurrentGaps :
         \E frame_result \in {Evaluated[clock, sky, fetched].frame_result},
            risk \in {Evaluated[clock, sky, fetched].risk} :
            /\ frame_result.reason = "None"
            /\ running' = [running EXCEPT !.of =
                              (p :> Invocation("evaluated", clock, risk, frame_result.frames[1],
                                               EmptyState, Idle, FALSE)) @@ running.of]
            /\ invocations' = invocations + 1
            /\ clock' = clock + gap
    /\ UNCHANGED <<alertState, sentLog>>
    /\ HandlerUnchanged

\* store.get_alert_state and should_send_alert on what it returned.
Read(p) ==
    /\ p \in DOMAIN running.of
    /\ running.of[p].pc = "evaluated"
    /\ \E decision \in {Decision(running.of[p].risk, alertState, UtcNow(running.of[p].now))} :
          /\ ~decision.raised
          /\ running' = [of |-> [running.of EXCEPT ![p].pc = "decided",
                                                  ![p].previous_state = alertState,
                                                  ![p].decision = decision],
                         order |-> Append(running.order, Event(p, "read"))]
    /\ UNCHANGED <<alertState, sentLog, clock, invocations>>
    /\ HandlerUnchanged

\* if decision.notify: send_telegram_message returns.
Send(p) ==
    /\ p \in DOMAIN running.of
    /\ running.of[p].pc = "decided"
    /\ sentLog' =
          IF running.of[p].decision.notify
          THEN sentLog \cup {[hash |-> running.of[p].decision.signal_hash,
                              at |-> running.of[p].now]}
          ELSE sentLog
    /\ running' = [running EXCEPT !.of[p].pc = "sent",
                                  !.of[p].sent = running.of[p].decision.notify]
    /\ UNCHANGED <<alertState, clock, invocations>>
    /\ HandlerUnchanged

\* send_telegram_message raises RuntimeError, which ends the invocation.
SendFails(p) ==
    /\ p \in DOMAIN running.of
    /\ running.of[p].pc = "decided"
    /\ running.of[p].decision.notify
    /\ running' = [running EXCEPT !.of[p].pc = "failed"]
    /\ UNCHANGED <<alertState, sentLog, clock, invocations>>
    /\ HandlerUnchanged

\* A slip: the item is put only when the stored one is still the one read.
WriteIfUnchanged(p) ==
    /\ p \in DOMAIN running.of
    /\ running.of[p].pc = "sent"
    /\ alertState' =
          IF alertState = running.of[p].previous_state
          THEN persist_alert_state(running.of[p].decision, running.of[p].risk,
                                   UtcNow(running.of[p].now), running.of[p].newest_frame)
          ELSE alertState
    /\ running' = [of |-> [running.of EXCEPT ![p].pc = "done"],
                   order |-> Append(running.order, Event(p, "write"))]
    /\ UNCHANGED <<sentLog, clock, invocations>>
    /\ HandlerUnchanged

\* persist_alert_state: put_item replaces the stored item, whatever it is by now.
Write(p) ==
    /\ p \in DOMAIN running.of
    /\ running.of[p].pc = "sent"
    /\ alertState' = persist_alert_state(running.of[p].decision, running.of[p].risk,
                                         UtcNow(running.of[p].now), running.of[p].newest_frame)
    /\ running' = [of |-> [running.of EXCEPT ![p].pc = "done"],
                   order |-> Append(running.order, Event(p, "write"))]
    /\ UNCHANGED <<sentLog, clock, invocations>>
    /\ HandlerUnchanged

NextConcurrent ==
    \E p \in Concurrent : Start(p) \/ Read(p) \/ Send(p) \/ SendFails(p) \/ Write(p)

SpecConcurrent == InitConcurrent /\ [][NextConcurrent]_vars

\* Every evaluation: should_send_alert called on arbitrary arguments, and
\* called by lambda_handler on the stored state.
DecideAlone == polIn # NoCall /\ Decide
InvokeChained == polIn = NoCall /\ Next
InitEvaluations == InitPolicy \/ Init
NextEvaluations == DecideAlone \/ InvokeChained
SpecEvaluations == InitEvaluations /\ [][NextEvaluations]_vars

(***************************************************************************)
(* The notification policy's contract, stated on one call (SpecPolicy)     *)
(***************************************************************************)

Decided == polOut # Idle

\* The orders of section 4.5: none < low < medium < high, and
\* now < 5_1 < 15_6 < 30_16 < 30_plus < unknown (lower is tighter).
LevelOrder == <<"none", "low", "medium", "high">>
BucketOrder == <<"now", "5_1", "15_6", "30_16", "30_plus", "unknown">>
Ordinal(order, x) == CHOOSE i \in 1..Len(order) : order[i] = x

\* The previous level and bucket of a call: a missing key counts as none / unknown.
PrevLevel == IF "lastLevel" \in DOMAIN polIn.previous_state
             THEN polIn.previous_state.lastLevel ELSE "none"
PrevBucket == IF "lastEtaBucket" \in DOMAIN polIn.previous_state
              THEN polIn.previous_state.lastEtaBucket ELSE "unknown"

RoseFromBelow == Ordinal(LevelOrder, polIn.risk.level) > Ordinal(LevelOrder, PrevLevel)
SameLevel == Ordinal(LevelOrder, polIn.risk.level) = Ordinal(LevelOrder, PrevLevel)
TighterBucket ==
    Ordinal(BucketOrder, polIn.risk.eta_bucket) < Ordinal(BucketOrder, PrevBucket)
AtLeastMedium == polIn.risk.level \in {"medium", "high"}
EtaTightening == AtLeastMedium /\ SameLevel /\ TighterBucket

\* The quiet window is well formed, and the local time of day lies in it: fewer
\* minutes after the window's start than the window is long (around the clock).
QuietWellFormed == polIn.quiet \in WellFormedQuiet
MinuteOfDay(hhmm) == hhmm[1].val * 60 + hhmm[2].val
InWindow(now_sg, quiet) ==
    LET start == MinuteOfDay(quiet[1])
        length == (MinuteOfDay(quiet[2]) - start + MinutesPerDay) % MinutesPerDay
        timeOfDay == (now_sg.abs + SG_TZ) % MinutesPerDay
    IN (timeOfDay - start + MinutesPerDay) % MinutesPerDay < length
InQuietWindow == InWindow(polIn.now_sg, polIn.quiet)

\* level:score//10:eta_bucket of the risk under evaluation.
RiskHash ==
    LET decile == CHOOSE k \in 0..10 : 10 * k <= polIn.risk.score /\ polIn.risk.score < 10 * k + 10
    IN polIn.risk.level \o ":" \o ToString(decile) \o ":" \o polIn.risk.eta_bucket

\* The stored hash is the new one and the stored send time is less than the
\* cooldown before the evaluation.
SameHashInCooldown ==
    /\ "lastSignalHash" \in DOMAIN polIn.previous_state
    /\ polIn.previous_state.lastSignalHash = RiskHash
    /\ "lastSentAt" \in DOMAIN polIn.previous_state
    /\ polIn.previous_state.lastSentAt.kind = "iso"
    /\ polIn.now_sg.abs
          - (polIn.previous_state.lastSentAt.wall - polIn.previous_state.lastSentAt.off)
        < polIn.cooldown_minutes

Outcome == <<polOut.notify, polOut.reason>>

\* C2 as stated: a rise into high from absent, none, low or medium always
\* notifies with reason upward_transition, whatever the stored hash, send time,
\* cooldown and time of day.
C2_HighAlwaysNotifies ==
    (Decided /\ QuietWellFormed /\ polIn.risk.level = "high" /\ PrevLevel # "high")
        => Outcome = <<TRUE, "upward_transition">>

\* C2 amended: such a rise notifies with reason upward_transition unless the
\* stored hash equals the new hash and the stored send time is within the
\* cooldown; then the decision is no notify, duplicate_within_cooldown.
C2_HighNotifiesUnlessDuplicate ==
    (Decided /\ QuietWellFormed /\ polIn.risk.level = "high" /\ PrevLevel # "high")
        => Outcome = IF SameHashInCooldown THEN <<FALSE, "duplicate_within_cooldown">>
                     ELSE <<TRUE, "upward_transition">>

\* A rise from medium into high inside quiet hours, sent 10 minutes after the
\* previous message (cooldown 30) because the stored hash is another one.
C2_Witness ==
    /\ Decided /\ QuietWellFormed /\ InQuietWindow
    /\ polIn.risk.level = "high" /\ PrevLevel = "medium"
    /\ "lastSentAt" \in DOMAIN polIn.previous_state
    /\ polIn.previous_state.lastSentAt.kind = "iso"
    /\ polIn.now_sg.abs - (polIn.previous_state.lastSentAt.wall - SG_TZ) = 10
    /\ polIn.cooldown_minutes = 30
    /\ polOut.notify /\ polOut.reason = "upward_transition"

\* C3: inside the quiet window a risk that is not high never notifies; and a
\* high risk gets the decision it gets, all else equal, under any quiet
\* setting whose window does not contain the evaluation time.
C3_QuietHours ==
    (Decided /\ QuietWellFormed) =>
        /\ (InQuietWindow /\ polIn.risk.level # "high") => ~polOut.notify
        /\ polIn.risk.level = "high" =>
              \A other \in WellFormedQuiet :
                 ~InWindow(polIn.now_sg, other) =>
                    LET outside == should_send_alert(polIn.risk, polIn.previous_state,
                                                     polIn.now_sg, other[1], other[2],
                                                     polIn.cooldown_minutes)
                    IN Outcome = <<outside.notify, outside.reason>>

\* 23:00 under the window 23:00-07:00: a rise from low to medium is silenced.
C3_Witness ==
    /\ Decided /\ polIn.quiet = <<HHMM(23, 0), HHMM(7, 0)>>
    /\ polIn.now_sg = SgTime(1, 23, 0)
    /\ polIn.risk.level = "medium" /\ PrevLevel = "low"
    /\ Outcome = <<FALSE, "quiet_hours">>

\* The five rules of section 4.5, first match first.
ExpectedOutcome ==
    IF ~AtLeastMedium THEN <<FALSE, "below_notification_level">>
    ELSE IF InQuietWindow /\ polIn.risk.level # "high" THEN <<FALSE, "quiet_hours">>
    ELSE IF ~RoseFromBelow /\ ~EtaTightening THEN <<FALSE, "not_upward_or_eta_tightening">>
    ELSE IF SameHashInCooldown THEN <<FALSE, "duplicate_within_cooldown">>
    ELSE <<TRUE, IF RoseFromBelow THEN "upward_transition" ELSE "eta_tightening">>

\* C4: every call returns the outcome of the first matching rule.
C4_FirstMatchingRule ==
    (Decided /\ QuietWellFormed) => Outcome = ExpectedOutcome

\* Rule 4 decides: the bucket tightened at the same level, but the stored hash
\* is the new one and the last message is 10 minutes old (cooldown 30).
C4_Witness ==
    /\ Decided /\ QuietWellFormed
    /\ EtaTightening /\ SameHashInCooldown
    /\ Outcome = <<FALSE, "duplicate_within_cooldown">>

\* C5 as stated: outside quiet hours, at the same level (medium or high), a
\* strictly tighter bucket notifies with reason eta_tightening and an equal or
\* looser one is rejected with not_upward_or_eta_tightening; a fall of the
\* level is no tightening whatever the buckets.
C5_TighteningNotifies ==
    (Decided /\ QuietWellFormed /\ ~InQuietWindow /\ AtLeastMedium /\ ~RoseFromBelow) =>
        Outcome = IF SameLevel /\ TighterBucket THEN <<TRUE, "eta_tightening">>
                  ELSE <<FALSE, "not_upward_or_eta_tightening">>

\* C5 amended: the same, except that a tightening whose hash is the stored
\* one, sent less than the cooldown ago, is rejected as a duplicate.
C5_TighteningNotifiesUnlessDuplicate ==
    (Decided /\ QuietWellFormed /\ ~InQuietWindow /\ AtLeastMedium /\ ~RoseFromBelow) =>
        Outcome = IF ~(SameLevel /\ TighterBucket)
                  THEN <<FALSE, "not_upward_or_eta_tightening">>
                  ELSE IF SameHashInCooldown THEN <<FALSE, "duplicate_within_cooldown">>
                  ELSE <<TRUE, "eta_tightening">>

\* A missing stored bucket counts as unknown: medium with bucket 30_plus after
\* medium with no stored bucket is a tightening.
C5_Witness ==
    /\ Decided /\ QuietWellFormed /\ ~InQuietWindow
    /\ polIn.risk.level = "medium" /\ polIn.risk.eta_bucket = "30_plus"
    /\ "lastLevel" \in DOMAIN polIn.previous_state /\ PrevLevel = "medium"
    /\ "lastEtaBucket" \notin DOMAIN polIn.previous_state
    /\ Outcome = <<TRUE, "eta_tightening">>

\* C7: no call raises.
C7_NeverRaises == Decided => ~polOut.raised

(***************************************************************************)
(* The risk classifier's contract, stated on one call (SpecRisk)           *)
(***************************************************************************)

Computed == sigOut # NoResult
NonEmptyInput == sigIn.local_series # <<>> /\ sigIn.distance_series_px # <<>>

\* x >= num/den and x <= num/den for a finite x (den > 0).
AtLeast(x, num, den) == x.n * den >= num * x.d
AtMost(x, num, den) == x.n * den <= num * x.d

Motion == sigOut.debug.motion
MotionEta == Motion.eta_minutes
HeavyNow == AtLeast(sigIn.local_series[1], 5, 2)

\* now for 0, 5_1 for 1-5, 15_6 for 6-15, 30_16 for 16-30, 30_plus above 30.
BucketOf(minutes) ==
    CASE minutes <= 0 -> "now"
      [] minutes \in 1..5 -> "5_1"
      [] minutes \in 6..15 -> "15_6"
      [] minutes \in 16..30 -> "30_16"
      [] OTHER -> "30_plus"

\* The rows of section 4.4, first match first.
ExpectedRow ==
    IF HeavyNow THEN <<"high", 0, "now">>
    ELSE IF sigOut.rain_now THEN <<"medium", 0, "now">>
    ELSE IF MotionEta.defined /\ MotionEta.v <= 10 /\ AtLeast(Motion.confidence, 45, 100)
    THEN <<"high", MotionEta.v, Motion.eta_bucket>>
    ELSE IF MotionEta.defined /\ MotionEta.v <= 30 /\ AtLeast(Motion.confidence, 35, 100)
    THEN <<"medium", MotionEta.v, Motion.eta_bucket>>
    ELSE IF ~MotionEta.defined /\ sigOut.debug.nearby_signal
    THEN <<"medium", 30, "unknown">>
    ELSE <<"low", 30, IF MotionEta.defined THEN BucketOf(MotionEta.v) ELSE "unknown">>

\* C8: for a non-empty input the level is low, medium or high and (level,
\* eta_minutes, eta_bucket) is the triple of the first matching row.
C8_FirstMatchingRow ==
    (Computed /\ NonEmptyInput) =>
        /\ sigOut.level \in {"low", "medium", "high"}
        /\ <<sigOut.level, sigOut.eta_minutes, sigOut.eta_bucket>> = ExpectedRow

\* The fourth row decides: no rain now, a motion ETA of 11 to 30 minutes.
C8_Witness ==
    /\ Computed /\ NonEmptyInput
    /\ ~HeavyNow /\ ~sigOut.rain_now
    /\ MotionEta.defined /\ MotionEta.v > 10
    /\ sigOut.level = "medium" /\ sigOut.eta_minutes = MotionEta.v
    /\ sigOut.eta_bucket = "30_16"

\* The integer nearest to num/den (den > 0), the even one when two are equally near.
Nearest(num, den) ==
    CHOOSE k \in {num \div den, num \div den + 1} :
        \/ Abs(2 * num - 2 * k * den) < den
        \/ Abs(2 * num - 2 * k * den) = den /\ k % 2 = 0

\* base + min(now_local, 5) * 4 + eta_bonus + round(confidence * 10), as a
\* fraction over the denominator of now_local.
ScoreSum ==
    LET now_local == sigIn.local_series[1]
        base == CASE sigOut.level = "low" -> 20
                  [] sigOut.level = "medium" -> 55
                  [] sigOut.level = "high" -> 75
        eta_bonus == IF MotionEta.defined /\ MotionEta.v <= 10 THEN 10
                     ELSE IF MotionEta.defined /\ MotionEta.v <= 20 THEN 5
                     ELSE 0
        whole == base + eta_bonus + Nearest(sigOut.confidence.n * 10, sigOut.confidence.d)
        capped == IF AtLeast(now_local, 5, 1) THEN [n |-> 5, d |-> 1] ELSE now_local
    IN [n |-> whole * capped.d + 4 * capped.n, d |-> capped.d]

\* C9: the score is an integer in 0..100, the clamped rounded sum.
C9_ScoreFormula ==
    (Computed /\ NonEmptyInput) =>
        LET rounded == Nearest(ScoreSum.n, ScoreSum.d)
        IN /\ sigOut.score \in 0..100
           /\ sigOut.score = IF rounded < 0 THEN 0 ELSE IF rounded > 100 THEN 100 ELSE rounded

\* The clamp acts: the sum exceeds 100 and the score is 100.
C9_Witness ==
    /\ Computed /\ NonEmptyInput
    /\ ScoreSum.n > 100 * ScoreSum.d
    /\ sigOut.score = 100

\* C10: local[0] at or above the rain-now threshold gives rain_now, ETA 0 and
\* bucket now, whatever the distances, minutes and regression.
C10_RainNowByIntensity ==
    (Computed /\ NonEmptyInput
       /\ sigIn.local_series[1].n * sigIn.rain_now_intensity_threshold.d
            >= sigIn.rain_now_intensity_threshold.n * sigIn.local_series[1].d) =>
        /\ sigOut.rain_now
        /\ sigOut.eta_minutes = 0 /\ sigOut.eta_bucket = "now"
        /\ MotionEta.defined /\ MotionEta.v = 0 /\ Motion.eta_bucket = "now"

\* local[0] equals the threshold, no rain pixel within the search radius in the
\* newest frame, and the earlier frames show a valid approach.
C10_Witness ==
    /\ Computed /\ NonEmptyInput
    /\ sigIn.local_series[1] = sigIn.rain_now_intensity_threshold
    /\ sigIn.distance_series_px[1] = INF
    /\ Motion.valid_approach
    /\ sigOut.rain_now /\ sigOut.eta_minutes = 0

(***************************************************************************)
(* The cooldown over chained cycles (Spec)                                 *)
(***************************************************************************)

\* C1: no two delivered notifications with the same signal hash are less than
\* cooldown_minutes apart, whatever cycles happened between them.
C1_NoRepeatWithinCooldown ==
    \A first \in sentLog, second \in sentLog :
        (first.hash = second.hash /\ first.at < second.at)
            => second.at - first.at >= config.cooldown_minutes

(***************************************************************************)
(* The state snapshot (SpecEvaluations)                                    *)
(***************************************************************************)

\* level:score//10:eta_bucket of a risk.
HashOf(risk) ==
    LET decile == CHOOSE k \in 0..10 : 10 * k <= risk.score /\ risk.score < 10 * k + 10
    IN risk.level \o ":" \o ToString(decile) \o ":" \o risk.eta_bucket

\* The three fields of a snapshot are those of the risk.
ReflectsRisk(state, risk) ==
    /\ {"lastLevel", "lastEtaBucket", "lastSignalHash"} \subseteq DOMAIN state
    /\ state["lastLevel"] = risk.level
    /\ state["lastEtaBucket"] = risk.eta_bucket
    /\ state["lastSignalHash"] = HashOf(risk)

\* lastSentAt is in the snapshot exactly when the decision notifies, and is
\* then a timestamp of the instant of the evaluation.
StampedIffNotify(decision, instant) ==
    /\ ("lastSentAt" \in DOMAIN decision.next_state) <=> decision.notify
    /\ decision.notify =>
          /\ decision.next_state["lastSentAt"].kind = "iso"
          /\ decision.next_state["lastSentAt"].wall - decision.next_state["lastSentAt"].off
                = instant

Evaluated_in_cycle == lastRun.outcome \in {"completed", "send_failed"}

\* C6: whatever branch should_send_alert returns from, next_state has the
\* level, the ETA bucket and the signal hash of the risk just evaluated, and has
\* lastSentAt, equal to the evaluation time, exactly when notify is true; and
\* after a completed cycle the stored lastLevel, lastEtaBucket and
\* lastSignalHash are those of that cycle's risk, notified or suppressed.
C6_StateReflectsLatestEvaluation ==
    /\ (Decided /\ ~polOut.raised) =>
          /\ ReflectsRisk(polOut.next_state, polIn.risk)
          /\ StampedIffNotify(polOut, polIn.now_sg.abs)
    /\ Evaluated_in_cycle =>
          /\ ReflectsRisk(lastRun.decision.next_state, lastRun.risk)
          /\ StampedIffNotify(lastRun.decision, lastRun.now)
    /\ lastRun.outcome = "completed" =>
          /\ ReflectsRisk(alertState, lastRun.risk)
          /\ ("lastSentAt" \in DOMAIN alertState) <=> lastRun.decision.notify

\* A completed cycle whose evaluation was suppressed replaced the snapshot of
\* a notified one: another hash is stored and lastSentAt is gone.
C6_Witness ==
    /\ lastRun.outcome = "completed"
    /\ ~lastRun.decision.notify
    /\ "lastSentAt" \in DOMAIN lastRun.previous_state
    /\ lastRun.previous_state["lastSignalHash"] # alertState["lastSignalHash"]
    /\ alertState["lastSignalHash"] = HashOf(lastRun.risk)
    /\ "lastSentAt" \notin DOMAIN alertState

(***************************************************************************)
(* The motion estimate's contract, stated on one call (SpecRisk)           *)
(***************************************************************************)

\* The frames that are points of the regression: a minute and a finite distance.
PointCount ==
    IF Len(sigIn.minutes_series) < Len(sigIn.distance_series_px)
    THEN Len(sigIn.minutes_series) ELSE Len(sigIn.distance_series_px)
FinitePoints == {i \in 1..PointCount : sigIn.distance_series_px[i].d # 0}

\* The sum of term[i] over the finite points.
OverPoints(term) ==
    RSum([i \in 1..PointCount |-> IF i \in FinitePoints THEN term[i] ELSE Float(0)])

\* The least-squares slope of distance against minutes is at least num/den:
\* n*Sxy - Sx*Sy >= (num/den) * (n*Sxx - Sx*Sx), the right side being positive.
SlopeAtLeast(num, den) ==
    LET x == sigIn.minutes_series
        y == sigIn.distance_series_px
        n == Float(Cardinality(FinitePoints))
        sx == OverPoints(x)
        sy == OverPoints(y)
        sxx == OverPoints([i \in 1..PointCount |-> RMul(x[i], x[i])])
        sxy == OverPoints([i \in 1..PointCount |-> RMul(x[i], y[i])])
        spread == RSub(RMul(n, sxx), RMul(sx, sx))
    IN /\ RLt(Float(0), spread)
       /\ RLe(RMul(Frac(num, den), spread), RSub(RMul(n, sxy), RMul(sx, sy)))

SpanAtLeast(minutes) ==
    \E i \in FinitePoints, j \in FinitePoints :
        RLe(Float(minutes), RSub(sigIn.minutes_series[i], sigIn.minutes_series[j]))

Approaching ==
    /\ Computed /\ NonEmptyInput
    /\ Cardinality(FinitePoints) >= 3
    /\ SpanAtLeast(10)
    /\ SlopeAtLeast(1, 4)

\* C11 as stated: at least 3 finite points spanning at least 10 minutes with a
\* slope of at least 0.25 px/min give valid_approach and an ETA in 1..60.
C11_ApproachGivesEta ==
    Approaching =>
        /\ Motion.valid_approach
        /\ MotionEta.defined
        /\ MotionEta.v \in 1..60

\* C11: at least 3 finite points spanning at least 10 minutes with a slope of
\* at least 0.25 px/min give valid_approach and a defined ETA, which is an
\* integer in 1..60 unless it rains now, and 0 when it rains now.
C11_ApproachGivesEtaUnlessRainNow ==
    Approaching =>
        /\ Motion.valid_approach
        /\ MotionEta.defined
        /\ IF sigOut.rain_now THEN MotionEta.v = 0 ELSE MotionEta.v \in 1..60

\* A slow approach (slope under 0.5 px/min) with no rain now and an ETA in 1..60.
C11_Witness ==
    /\ Approaching
    /\ ~SlopeAtLeast(1, 2)
    /\ ~sigOut.rain_now
    /\ Motion.valid_approach
    /\ MotionEta.defined /\ MotionEta.v \in 1..60

\* The fixed answer to an input without signal.
IsNoSignal(result) ==
    /\ result.level = "low"
    /\ result.score = 0
    /\ result.eta_minutes = 30
    /\ result.eta_bucket = "unknown"
    /\ result.rain_now = FALSE
    /\ result.confidence = Float(0)
    /\ result.reasons = <<"no_signal">>
    /\ result.debug.distance_series_px = <<>>
    /\ result.debug.minutes_series = <<>>

\* C12: when the local-intensity series or the distance series is empty, and
\* when evaluate_risk_from_frames gets no frame, the result is the fixed
\* low / 0 / 30 / unknown / no_signal value with empty debug series.
C12_EmptyInputGivesNoSignal ==
    /\ (Computed /\ ~NonEmptyInput) => IsNoSignal(sigOut)
    /\ \A cfg \in SignalConfigs :
          IsNoSignal(evaluate_risk_from_frames(<<>>, config.poll_interval_minutes,
                                               cfg[1], cfg[2], cfg[3]))

\* One series is empty and the other is not.
C12_Witness ==
    /\ Computed
    /\ sigIn.local_series = <<>>
    /\ sigIn.distance_series_px # <<>>
    /\ IsNoSignal(sigOut)

\* The reason codes in their fixed order, and when each applies.
ReasonOrder ==
    <<"rain_now", "heavy_rain_now", "eta_estimated", "approaching_fast", "nearby_cells",
      "eta_unknown_conservative">>

Applies(code) ==
    CASE code = "rain_now" -> sigOut.rain_now
      [] code = "heavy_rain_now" -> HeavyNow
      [] code = "eta_estimated" -> MotionEta.defined /\ ~sigOut.rain_now
      [] code = "approaching_fast" -> Motion.valid_approach
      [] code = "nearby_cells" -> sigOut.debug.nearby_signal
      [] code = "eta_unknown_conservative" ->
            ~MotionEta.defined /\ sigOut.debug.nearby_signal
      [] OTHER -> FALSE

Position(code) == CHOOSE i \in 1..Len(ReasonOrder) : ReasonOrder[i] = code

Reasons == sigOut.reasons

\* C13: for a non-empty input the reasons are exactly the applicable codes,
\* each once, in the fixed order; the list is never empty and weak_signal
\* appears exactly when no other code applies.
C13_ReasonsAreTheApplicableCodes ==
    (Computed /\ NonEmptyInput) =>
        /\ Reasons # <<>>
        /\ \A i \in 1..Len(ReasonOrder) :
              Applies(ReasonOrder[i]) <=> (\E k \in 1..Len(Reasons) : Reasons[k] = ReasonOrder[i])
        /\ \A k \in 1..Len(Reasons) :
              \/ Reasons[k] = "weak_signal"
              \/ \E i \in 1..Len(ReasonOrder) : Reasons[k] = ReasonOrder[i]
        /\ \A k, l \in 1..Len(Reasons) :
              (k < l) => /\ Reasons[k] # "weak_signal"
                         /\ Reasons[l] # "weak_signal"
                         /\ Position(Reasons[k]) < Position(Reasons[l])
        /\ (\E k \in 1..Len(Reasons) : Reasons[k] = "weak_signal")
              <=> (\A i \in 1..Len(ReasonOrder) : ~Applies(ReasonOrder[i]))

\* An approach with cells nearby: three codes, in the fixed order.
C13_Witness ==
    /\ Computed
    /\ NonEmptyInput
    /\ Reasons = <<"eta_estimated", "approaching_fast", "nearby_cells">>

\* The fallback is reached as well.
C13_WeakSignalReached == Computed /\ NonEmptyInput /\ Reasons = <<"weak_signal">>

InUnitInterval(x) == AtLeast(x, 0, 1) /\ AtMost(x, 1, 1)

\* C16: for every non-empty input the motion estimate's confidence, proximity
\* and valid_ratio each lie in [0, 1].
C16_EstimateInUnitInterval ==
    (Computed /\ NonEmptyInput) =>
        /\ InUnitInterval(Motion.confidence)
        /\ InUnitInterval(Motion.proximity)
        /\ InUnitInterval(Motion.valid_ratio)

\* What the code does keep: the clamped confidence and the ratio of points.
C16_ConfidenceAndRatioInUnitInterval ==
    (Computed /\ NonEmptyInput) =>
        /\ InUnitInterval(Motion.confidence)
        /\ InUnitInterval(Motion.valid_ratio)

\* A fitted line that crosses zero before now: the intercept is negative and
\* the proximity computed from it exceeds 1.
C16_ProximityAboveOne ==
    /\ Computed
    /\ NonEmptyInput
    /\ Motion.intercept_px.defined
    /\ ~AtLeast(Motion.intercept_px.v, 0, 1)
    /\ ~AtMost(Motion.proximity, 1, 1)

(***************************************************************************)
(* filter_recent_frames (SpecFilter)                                       *)
(***************************************************************************)
Filtered == frmOut.calls >= 1
Listed == frmIn.frames
Window == frmIn.history_window_minutes

\* C14: filtering the output of filter_recent_frames again with the same
\* window gives the same sequence.
C14_FilterIsIdempotent ==
    (frmOut.calls = 2) => (frmOut.twice = frmOut.once)

\* Both calls done on a list with a malformed token and two frames of the same
\* time, of which the first call dropped something.
C14_Witness ==
    /\ frmOut.calls = 2
    /\ frmOut.twice = frmOut.once
    /\ \E i \in 1..Len(Listed) : ~Listed[i].timestamp_token.ok
    /\ \E i, j \in 1..Len(frmOut.once) :
          i # j /\ frmOut.once[i].timestamp_token = frmOut.once[j].timestamp_token
    /\ Len(frmOut.once) < Len(Listed)

\* The frames with a parseable token, the time of one, and the newest time.
Parseable(frame) == frame.timestamp_token.ok
TimeOf(frame) == frame.timestamp_token.t
ParseableFrames == {Listed[i] : i \in {k \in 1..Len(Listed) : Parseable(Listed[k])}}
NewestTime ==
    CHOOSE t \in {TimeOf(f) : f \in ParseableFrames} : \A f \in ParseableFrames : TimeOf(f) <= t

\* The output is the frames of age 0..oldest, newest first; the input as it
\* is when nothing parses.
SelectsAges(oldest) ==
    IF ParseableFrames = {} THEN frmOut.once = Listed
    ELSE LET kept == {f \in ParseableFrames : NewestTime - TimeOf(f) \in 0..oldest}
         IN /\ {frmOut.once[i] : i \in 1..Len(frmOut.once)} = kept
            /\ Len(frmOut.once) = Cardinality(kept)
            /\ \A i, j \in 1..Len(frmOut.once) :
                  (i < j) => TimeOf(frmOut.once[i]) >= TimeOf(frmOut.once[j])

\* C15 as stated: the frames of age 0..windowMinutes for every window.
C15_SelectsWindow == Filtered => SelectsAges(Window)

\* C15: when a frame parses, the output is exactly the parseable frames whose
\* age relative to the newest parsed time lies in [0, max(0, windowMinutes)],
\* newest first; when none parses, the output is the input unchanged.
C15_SelectsClampedWindow ==
    Filtered => SelectsAges(IF Window > 0 THEN Window ELSE 0)

\* A frame exactly windowMinutes old is kept while another frame is dropped.
C15_Witness ==
    /\ Filtered
    /\ Window > 0
    /\ ParseableFrames # {}
    /\ \E i \in 1..Len(frmOut.once) : NewestTime - TimeOf(frmOut.once[i]) = Window
    /\ Len(frmOut.once) < Len(Listed)

\* A negative window keeps the frames of the newest time.
C15_NegativeWindowKeepsNewest ==
    /\ Filtered
    /\ Window < 0
    /\ ParseableFrames # {}
    /\ frmOut.once # <<>>

(***************************************************************************)
(* generate_radar_candidates (SpecCandidates)                              *)
(***************************************************************************)
Generated == candOut.called
Candidates == candOut.candidates
Poll == candIn.poll_interval_minutes

\* The Singapore wall clock of now, in minutes, and the latest minute of its
\* hour that is not after it and is a multiple of the poll interval.
SingaporeNow == candIn.now.abs + SG_TZ
NewestSlot ==
    CHOOSE slot \in (SingaporeNow - 59)..SingaporeNow :
        /\ slot \div 60 = SingaporeNow \div 60
        /\ (slot % 60) % Poll = 0
        /\ \A later \in (slot + 1)..SingaporeNow : (later % 60) % Poll # 0

\* C20: generate_radar_candidates returns frame_count candidates; candidate i
\* has index i and the token of the Singapore time floored to a multiple of
\* the poll interval, minus i poll intervals; tokens decrease with the index.
C20_CandidatesAreTheLatestSlots ==
    Generated =>
        /\ Len(Candidates) = candIn.frame_count
        /\ \A i \in 0..(candIn.frame_count - 1) :
              /\ Candidates[i + 1].index = i
              /\ Candidates[i + 1].timestamp_token = [ok |-> TRUE, t |-> NewestSlot - i * Poll]
        /\ \A i, j \in 1..Len(Candidates) :
              (i < j) => Candidates[i].timestamp_token.t > Candidates[j].timestamp_token.t

\* A UTC now of 06:07 gives the Singapore slots 14:05 and 14:00.
C20_Witness ==
    /\ Generated
    /\ candIn.now = [abs |-> SgTime(1, 14, 7).abs, off |-> 0]
    /\ Poll = 5
    /\ Len(Candidates) >= 2
    /\ Candidates[1].timestamp_token.t = Wall(SgTime(1, 14, 5))
    /\ Candidates[2].timestamp_token.t = Wall(SgTime(1, 14, 0))

(***************************************************************************)
(* The calls of one invocation (Spec)                                      *)
(***************************************************************************)
\* The positions of the calls of one operation among the calls of a run.
CallsOf(run, op) == {k \in 1..Len(run.effects) : run.effects[k].op = op}
Times(run, op) == Cardinality(CallsOf(run, op))
DeliveryFailed(run) ==
    \E k \in CallsOf(run, "send_telegram_message") : ~run.effects[k].ok
Invoked == invocations' = invocations + 1

\* C17: when the decision is notify and send_telegram_message raises, the error
\* leaves lambda_handler, there is no second send, and the alert state is not
\* written: the stored state is what it was before the invocation.
C17_FailedDeliveryWritesNothing ==
    [][(Invoked /\ DeliveryFailed(lastRun')) =>
          /\ lastRun'.decision.notify
          /\ lastRun'.response = Propagated("RuntimeError")
          /\ Times(lastRun', "send_telegram_message") = 1
          /\ Times(lastRun', "put_alert_state") = 0
          /\ alertState' = alertState
          /\ sentLog' = sentLog]_vars

\* A delivery failed on an upward transition while an earlier state is stored.
C17_Witness ==
    /\ DeliveryFailed(lastRun)
    /\ alertState # EmptyState
    /\ alertState = lastRun.previous_state
    /\ lastRun.decision.next_state["lastLevel"] # alertState["lastLevel"]

\* What a run that went through reads, sends, writes and returns.
WentThrough(run) ==
    /\ Times(run, "put_alert_state") = 1
    /\ run.effects[Len(run.effects)].op = "put_alert_state"
    /\ LET item == run.effects[Len(run.effects)].item
       IN /\ \A key \in DOMAIN run.decision.next_state :
                key \in DOMAIN item /\ item[key] = run.decision.next_state[key]
          /\ "lastEtaBucket" \in DOMAIN item
          /\ item["lastEtaBucket"] = run.risk.eta_bucket
          /\ alertState = item
    /\ "notify" \in DOMAIN run.response
    /\ run.response.notify = run.decision.notify
    /\ run.response.reason = run.decision.reason

ReadsOnceSendsIffNotify(run) ==
    /\ Times(run, "get_alert_state") = 1
    /\ Times(run, "send_telegram_message") = (IF run.decision.notify THEN 1 ELSE 0)

\* C18 as stated: every invocation with a recent frame reads once, sends once
\* exactly when the decision is notify, and then writes once.
C18_EveryEvaluationWrites ==
    (lastRun.recent >= 1) =>
        /\ ReadsOnceSendsIffNotify(lastRun)
        /\ WentThrough(lastRun)

\* C18: every invocation with a recent frame reads the alert state once and
\* calls send once exactly when the decision is notify; unless that send
\* raises, it then writes the state once, the written item holds every field
\* of decision.next_state and lastEtaBucket = risk.eta_bucket, and the
\* response carries the decision's notify and reason; when the send raises
\* nothing is written.
C18_EvaluationWritesUnlessDeliveryFails ==
    (lastRun.recent >= 1) =>
        /\ ReadsOnceSendsIffNotify(lastRun)
        /\ IF DeliveryFailed(lastRun)
           THEN Times(lastRun, "put_alert_state") = 0
           ELSE WentThrough(lastRun)

\* A notifying run: read, send, write, in this order.
C18_Witness ==
    /\ lastRun.recent >= 1
    /\ lastRun.decision.notify
    /\ Len(lastRun.effects) = 4
    /\ lastRun.effects[2] = get_alert_state
    /\ lastRun.effects[3] = send_telegram_message(TRUE)
    /\ lastRun.effects[4].op = "put_alert_state"
    /\ "lastSentAt" \in DOMAIN alertState

\* C19: when no candidate yields a frame the invocation returns a skipped
\* result with reason no_radar_frames; the alert state is neither read nor
\* written and no message is sent.
C19_NoFramesTouchesNothing ==
    [][(Invoked /\ lastRun'.fetched = 0) =>
          /\ lastRun'.response = [ok |-> TRUE, skipped |-> TRUE, reason |-> "no_radar_frames",
                                  inspected_candidates |-> FrameCount]
          /\ Times(lastRun', "get_alert_state") = 0
          /\ Times(lastRun', "put_alert_state") = 0
          /\ Times(lastRun', "send_telegram_message") = 0
          /\ alertState' = alertState
          /\ sentLog' = sentLog]_vars

\* An invocation without frames after one that notified: the state and the
\* log of that one are still there.
C19_Witness ==
    /\ lastRun.outcome = "skipped"
    /\ lastRun.fetched = 0
    /\ Times(lastRun, "get_alert_state") = 0
    /\ "lastSentAt" \in DOMAIN alertState
    /\ sentLog # {}

(***************************************************************************)
(* Degenerate regressions and the result's ETA (SpecRisk)                  *)
(***************************************************************************)
\* The minutes of the finite points are all the same.
ZeroVariance ==
    \A i \in FinitePoints, j \in FinitePoints :
        sigIn.minutes_series[i] = sigIn.minutes_series[j]

Degenerate ==
    /\ Computed /\ NonEmptyInput
    /\ \/ Cardinality(FinitePoints) < 3
       \/ ~SpanAtLeast(10)
       \/ ZeroVariance

RegressionSkipped ==
    /\ ~Motion.slope_px_per_min.defined
    /\ ~Motion.intercept_px.defined
    /\ ~Motion.r2.defined
    /\ ~Motion.valid_approach

\* C21 as stated: a degenerate input skips the regression and the motion
\* estimate's ETA and bucket are unknown.
C21_DegenerateGivesUnknown ==
    Degenerate =>
        /\ RegressionSkipped
        /\ ~MotionEta.defined
        /\ Motion.eta_bucket = "unknown"

\* C21: with fewer than 3 finite points, a span under 10 minutes or zero
\* variance of the minutes the regression is skipped; the motion estimate's
\* ETA and bucket are then unknown unless it rains now, when they are 0 and now.
C21_DegenerateGivesUnknownUnlessRainNow ==
    Degenerate =>
        /\ RegressionSkipped
        /\ IF sigOut.rain_now
           THEN MotionEta = Defined(0) /\ Motion.eta_bucket = "now"
           ELSE ~MotionEta.defined /\ Motion.eta_bucket = "unknown"

\* Three finite points within 6 minutes, no rain now.
C21_Witness ==
    /\ Degenerate
    /\ Cardinality(FinitePoints) >= 3
    /\ ~ZeroVariance
    /\ ~sigOut.rain_now
    /\ ~MotionEta.defined

\* A single frame with rain at the target: no regression, ETA 0.
C21_DegenerateWithRainNow ==
    /\ Degenerate
    /\ sigOut.rain_now
    /\ MotionEta = Defined(0)

\* C28 as stated: in every result eta_minutes is an integer in 0..60 and
\* eta_bucket is unknown or the bucket eta_minutes falls in.
C28_BucketOfResultEta ==
    Computed =>
        /\ sigOut.eta_minutes \in 0..60
        /\ sigOut.eta_bucket \in {"unknown", BucketOf(sigOut.eta_minutes)}

\* The last row of the classification: level low, ETA 30, the motion
\* estimate's bucket although the motion estimate has an ETA.
LowWithMotionEta ==
    /\ sigOut.level = "low"
    /\ sigOut.eta_minutes = 30
    /\ MotionEta.defined
    /\ sigOut.eta_bucket = BucketOf(MotionEta.v)

\* C28: in every result eta_minutes is an integer in 0..60 and eta_bucket is
\* unknown or the bucket eta_minutes falls in, except for a low result with
\* eta_minutes 30, whose bucket is that of the motion estimate's own ETA.
C28_BucketOfResultEtaExceptLow ==
    Computed =>
        /\ sigOut.eta_minutes \in 0..60
        /\ \/ sigOut.eta_bucket \in {"unknown", BucketOf(sigOut.eta_minutes)}
           \/ LowWithMotionEta

\* A medium result whose bucket is the bucket of its ETA of 16 to 30 minutes.
C28_Witness ==
    /\ Computed /\ NonEmptyInput
    /\ sigOut.eta_minutes \in 16..30
    /\ sigOut.level = "medium"
    /\ sigOut.eta_bucket = "30_16"
    /\ sigOut.eta_bucket = BucketOf(sigOut.eta_minutes)

\* A slow approach: the motion ETA is beyond 30 minutes, the result says 30
\* minutes and 30_plus.
C28_LowBeyondThirty ==
    /\ Computed /\ NonEmptyInput
    /\ LowWithMotionEta
    /\ MotionEta.v > 30
    /\ sigOut.eta_bucket = "30_plus"

HasReason(code) == \E k \in 1..Len(sigOut.reasons) : sigOut.reasons[k] = code

\* C29: a result with bucket now and ETA 0 has rain_now and the reason
\* rain_now; heavy rain at the target (local[0] >= 2.5) implies rain_now.
C29_NowMeansRainNow ==
    (Computed /\ NonEmptyInput) =>
        /\ (sigOut.eta_bucket = "now" /\ sigOut.eta_minutes = 0)
              => (sigOut.rain_now /\ HasReason("rain_now"))
        /\ HeavyNow => sigOut.rain_now

\* What the code keeps: bucket now comes with rain_now or with heavy rain, and
\* a threshold of at most 2.5 makes heavy rain a case of rain_now.
C29_NowMeansRainNowOrHeavy ==
    (Computed /\ NonEmptyInput) =>
        /\ (sigOut.eta_bucket = "now" /\ sigOut.eta_minutes = 0)
              => \/ sigOut.rain_now /\ HasReason("rain_now")
                 \/ HeavyNow /\ HasReason("heavy_rain_now")
        /\ (HeavyNow /\ AtMost(sigIn.rain_now_intensity_threshold, 5, 2)) => sigOut.rain_now

\* Heavy rain under a threshold of 3: high, now, and rain_now is false.
C29_HeavyWithoutRainNow ==
    /\ Computed /\ NonEmptyInput
    /\ HeavyNow
    /\ sigOut.level = "high" /\ sigOut.eta_bucket = "now" /\ sigOut.eta_minutes = 0
    /\ ~sigOut.rain_now
    /\ ~HasReason("rain_now")

\* fetch_and_decode_recent_frames, for every instant, sky and fetch outcome of
\* the handler: a fetched frame leaves a recent frame, the newest one first.
FetchedFrameIsKept ==
    \A minutes \in Instants, sky \in Skies, fetched \in FetchOutcomes :
        (fetched # {}) =>
            LET frame_result == Evaluated[minutes, sky, fetched].frame_result
            IN /\ frame_result.reason = "None"
               /\ frame_result.frames # <<>>
               /\ \A k \in 1..Len(frame_result.frames) :
                     frame_result.frames[k].timestamp_token.t
                        <= frame_result.frames[1].timestamp_token.t

\* C30: filter_recent_frames never empties a non-empty list, whatever the
\* window; when a token parses the first frame of the result carries the
\* newest parsed time; so the handler never skips with no_recent_radar_frames
\* once a frame was fetched, and frames[0] is the newest frame.
C30_FilterKeepsTheNewest ==
    /\ (Filtered /\ Listed # <<>>) =>
          /\ frmOut.once # <<>>
          /\ (ParseableFrames # {}) =>
                /\ Parseable(frmOut.once[1])
                /\ TimeOf(frmOut.once[1]) = NewestTime
    /\ FetchedFrameIsKept

\* A negative window on a list whose newest frame is not the first one.
C30_Witness ==
    /\ Filtered
    /\ Window < 0
    /\ ParseableFrames # {}
    /\ Parseable(Listed[1])
    /\ TimeOf(Listed[1]) < NewestTime
    /\ frmOut.once # <<>>
    /\ TimeOf(frmOut.once[1]) = NewestTime

\* The series evaluate_risk_from_frames built from the filtered frames.
Series == frmOut.series
Kept == frmOut.once
AllParse(frames) == \A k \in 1..Len(frames) : Parseable(frames[k])
NoneParses(frames) == \A k \in 1..Len(frames) : ~Parseable(frames[k])

\* C23: for the frames filter_recent_frames returned, the three series have
\* one entry per frame, minutes[0] = 0, and the minutes are non-negative and
\* non-decreasing with the index: the age of each frame when the tokens parse,
\* index * poll_interval_minutes when none parses.
C23_SeriesAreAligned ==
    frmOut.evaluated =>
        /\ Len(Series.local_series) = Len(Kept)
        /\ Len(Series.distance_series_px) = Len(Kept)
        /\ Len(Series.minutes_series) = Len(Kept)
        /\ \A k \in 1..Len(Kept) :
              /\ Series.local_series[k] = Kept[k].image.local
              /\ Series.distance_series_px[k] = Kept[k].image.dist
        /\ Series.minutes_series[1] = Float(0)
        /\ \A k \in 1..Len(Kept) : AtLeast(Series.minutes_series[k], 0, 1)
        /\ \A k \in 1..(Len(Kept) - 1) :
              RLe(Series.minutes_series[k], Series.minutes_series[k + 1])
        /\ AllParse(Kept) \/ NoneParses(Kept)
        /\ AllParse(Kept) =>
              \A k \in 1..Len(Kept) :
                 Series.minutes_series[k] = Float(TimeOf(Kept[1]) - TimeOf(Kept[k]))
        /\ NoneParses(Kept) =>
              \A k \in 1..Len(Kept) :
                 Series.minutes_series[k] = Float((k - 1) * frmIn.poll_interval_minutes)

\* Parsed tokens: the input order was not by time, the minutes are the ages.
C23_Witness ==
    /\ frmOut.evaluated
    /\ AllParse(Kept)
    /\ Len(Kept) >= 3
    /\ Kept[1].index > 0
    /\ Series.minutes_series[1] = Float(0)
    /\ Series.minutes_series[3] = Float(30)

\* No token parses: the minutes are the positions times the poll interval.
C23_FallbackReached ==
    /\ frmOut.evaluated
    /\ NoneParses(Kept)
    /\ Len(Kept) >= 2
    /\ Series.minutes_series[2] = Float(frmIn.poll_interval_minutes)

(***************************************************************************)
(* The stored send time after a cycle that did not notify (Spec)           *)
(***************************************************************************)
\* The moment of the next cycle, on the Singapore clock.
NextCycle == to_singapore(UtcNow(clock))

\* The latest cycle ran to its end and did not notify.
CompletedSilently == lastRun.outcome = "completed" /\ ~lastRun.decision.notify

\* C27: after a cycle that ran to its end with notify=false the stored item is
\* the one persist_alert_state built and nothing else, it has no lastSentAt
\* even when the state the cycle read had one, and the cooldown check of the
\* next cycle sees an infinite time since the last send.
C27_SendTimeDoesNotSurvive ==
    CompletedSilently =>
        /\ alertState = lastRun.effects[Len(lastRun.effects)].item
        /\ DOMAIN alertState =
              {"updatedAt", "lastScore", "lastEtaMinutes", "lastEtaBucket", "lastConfidence",
               "lastRadarToken", "lastEtaSlope", "lastEtaR2", "lastLevel", "lastSignalHash"}
        /\ minutes_between(Get(alertState, "lastSentAt", None), NextCycle) = Infinite
        /\ ~_is_duplicate_within_cooldown(alertState, alertState["lastSignalHash"],
                                          NextCycle, config.cooldown_minutes)

\* The cycle read a state with a send time that would still be inside the
\* cooldown at the next cycle, and the stored hash is the one the next cycle
\* compares with.
C27_Witness ==
    /\ CompletedSilently
    /\ "lastSentAt" \in DOMAIN lastRun.previous_state
    /\ LessThan(minutes_between(lastRun.previous_state["lastSentAt"], NextCycle),
                config.cooldown_minutes)
    /\ "lastSentAt" \notin DOMAIN alertState

(***************************************************************************)
(* Invocations for the same user at once (SpecConcurrent)                  *)
(***************************************************************************)
\* The place of an invocation's read or write among the reads and writes, 0
\* when it has not happened.
Place(p, op) ==
    IF \E i \in 1..Len(running.order) : running.order[i] = Event(p, op)
    THEN CHOOSE i \in 1..Len(running.order) : running.order[i] = Event(p, op)
    ELSE 0

HasRead(p) == Place(p, "read") > 0
HasWritten(p) == Place(p, "write") > 0

\* Both have read, and neither write came before either read.
BothReadFirst(p, q) ==
    /\ HasRead(p) /\ HasRead(q)
    /\ \A w \in {p, q}, r \in {p, q} : HasWritten(w) => Place(r, "read") < Place(w, "write")

\* q read after p's write.
Serialized(p, q) == HasWritten(p) /\ HasRead(q) /\ Place(p, "write") < Place(q, "read")

\* Quiet hours do not silence q's evaluation.
NotSilenced(q) ==
    ~QuietHoursApply(to_singapore(UtcNow(running.of[q].now)), config.quiet_start,
                     config.quiet_end, running.of[q].risk.level)

\* The messages the two have sent.
Messages(p, q) == Cardinality({r \in {p, q} : running.of[r].sent})

\* The one of the two that wrote last.
LastWriter(p, q) == IF Place(p, "write") > Place(q, "write") THEN p ELSE q

\* The item an invocation writes.
ItemOf(p) ==
    persist_alert_state(running.of[p].decision, running.of[p].risk,
                        UtcNow(running.of[p].now), running.of[p].newest_frame)

\* C22: of two invocations for the same user that both read the stored alert
\* state before either wrote it, both have read the same state; when one
\* decides to notify for an upward transition, the other, with a risk of the
\* same level and not in quiet hours, decides the same; when both have
\* finished, each one that decided to notify has sent its message, two for
\* the one transition, and the stored state is the item of the one that wrote
\* last.  When the second reads after the first one's write and has the same
\* level and ETA bucket, it does not notify: the transition gives one message.
C22_SameUserNotCoordinated ==
    \A p \in DOMAIN running.of : \A q \in DOMAIN running.of \ {p} :
        /\ BothReadFirst(p, q) =>
              /\ running.of[p].previous_state = running.of[q].previous_state
              /\ /\ running.of[p].decision.reason = "upward_transition"
                 /\ running.of[q].risk.level = running.of[p].risk.level
                 /\ NotSilenced(q)
                 => /\ running.of[q].decision.notify
                    /\ running.of[q].decision.reason = "upward_transition"
              /\ running.of[p].pc = "done" /\ running.of[q].pc = "done" =>
                    /\ \A r \in {p, q} : running.of[r].sent = running.of[r].decision.notify
                    /\ alertState = ItemOf(LastWriter(p, q))
        /\ /\ Serialized(p, q)
           /\ running.of[p].decision.notify
           /\ running.of[q].risk.level = running.of[p].risk.level
           /\ running.of[q].risk.eta_bucket = running.of[p].risk.eta_bucket
           => /\ ~running.of[q].decision.notify
              /\ running.of[q].pc = "done" => Messages(p, q) = 1

\* Both read the absent state before either wrote, both notified for the same
\* rise and both finished: two messages, and the first writer's item is gone.
C22_Witness ==
    /\ DOMAIN running.of = Concurrent
    /\ BothReadFirst(1, 2)
    /\ running.of[1].pc = "done" /\ running.of[2].pc = "done"
    /\ running.of[1].decision.reason = "upward_transition"
    /\ running.of[2].decision.reason = "upward_transition"
    /\ running.of[1].risk.level = running.of[2].risk.level
    /\ Messages(1, 2) = 2
    /\ LastWriter(1, 2) = 2
    /\ alertState = ItemOf(2)
    /\ alertState # ItemOf(1)

\* One after the other, with the same level and bucket: the first notified and
\* the second did not.
C22_SerializedReached ==
    /\ DOMAIN running.of = Concurrent
    /\ Serialized(1, 2)
    /\ running.of[1].pc = "done" /\ running.of[2].pc = "done"
    /\ running.of[1].decision.reason = "upward_transition"
    /\ running.of[2].risk.level = running.of[1].risk.level
    /\ running.of[2].risk.eta_bucket = running.of[1].risk.eta_bucket
    /\ Messages(1, 2) = 1

(***************************************************************************)
(* Claims about evaluations in a row                                       *)
(***************************************************************************)
\* The evaluation in polIn follows another one of the chain.
Follows == chain.length >= 2

\* The time since the stored send is below the cooldown.
WithinCooldown ==
    LessThan(minutes_between(Get(polIn.previous_state, "lastSentAt", None), polIn.now_sg),
             polIn.cooldown_minutes)

\* The stored hash is the hash of the new risk.
SameHash ==
    /\ "lastSignalHash" \in DOMAIN polIn.previous_state
    /\ polIn.previous_state["lastSignalHash"] = polOut.signal_hash

\* C24: in a chain of evaluations that starts from absent state and hands each
\* evaluation the next_state of the one before, no decision has the reason
\* duplicate_within_cooldown: a stored hash equal to the new one means an equal
\* level and an equal ETA bucket, and such an evaluation does not notify.
C24_NoDuplicateInChain ==
    /\ chain.length >= 1 => polOut.reason # "duplicate_within_cooldown"
    /\ Follows /\ SameHash =>
          /\ polIn.previous_state["lastLevel"] = polIn.risk.level
          /\ polIn.previous_state["lastEtaBucket"] = polIn.risk.eta_bucket
          /\ polOut.reason \in {"below_notification_level", "quiet_hours",
                                 "not_upward_or_eta_tightening"}

\* The hash is the stored one and the stored send is within the cooldown, and
\* the third rule has rejected the evaluation.
C24_Witness ==
    /\ Follows
    /\ SameHash
    /\ WithinCooldown
    /\ polOut.reason = "not_upward_or_eta_tightening"

\* The level and the ETA bucket are those of the evaluation before.
SameRisk ==
    /\ Follows
    /\ polIn.risk.level = chain.before.risk.level
    /\ polIn.risk.eta_bucket = chain.before.risk.eta_bucket

\* C25: an evaluation whose risk has the level and the ETA bucket of the
\* evaluation before it does not notify, whatever the score, the time elapsed,
\* the cooldown or the quiet hours; a chain of one constant risk notifies at
\* most once.
C25_SteadyStateIsSilent ==
    /\ SameRisk => ~polOut.notify
    /\ chain.constant => chain.notified <= 1

\* A high risk three times in a row, notified the first time; the last one a
\* day later in another score decile, with no cooldown and no quiet hours.
C25_Witness ==
    /\ SameRisk
    /\ chain.length = MaxChain
    /\ chain.constant
    /\ chain.notified = 1
    /\ polIn.risk.level = "high"
    /\ polIn.risk.score # chain.before.risk.score
    /\ polIn.now_sg.abs >= chain.before.now_sg.abs + MinutesPerDay
    /\ polIn.cooldown_minutes = 0
    /\ ~is_within_quiet_hours(polIn.now_sg, polIn.quiet[1], polIn.quiet[2])
    /\ ~polOut.notify

\* The evaluation before was a medium one rejected by quiet hours.
Suppressed ==
    /\ Follows
    /\ chain.before.risk.level = "medium"
    /\ chain.before.decision.reason = "quiet_hours"

\* The new bucket is the one before or a looser one.
SameOrLooser ==
    ETA_BUCKET_WEIGHT(polIn.risk.eta_bucket) >= ETA_BUCKET_WEIGHT(chain.before.risk.eta_bucket)

\* C26: a medium evaluation rejected by quiet hours has stored its level and
\* bucket and no send time; the evaluation after it does not notify when it has
\* the same level and the same or a looser bucket, and notifies only when the
\* level has risen or the bucket has tightened.
C26_SuppressedRiseIsConsumed ==
    Suppressed =>
        /\ DOMAIN polIn.previous_state = {"lastLevel", "lastEtaBucket", "lastSignalHash"}
        /\ polIn.previous_state["lastLevel"] = "medium"
        /\ polIn.previous_state["lastEtaBucket"] = chain.before.risk.eta_bucket
        /\ polIn.risk.level = "medium" /\ SameOrLooser => ~polOut.notify
        /\ polOut.notify =>
              \/ polIn.risk.level = "high"
              \/ /\ polIn.risk.level = "medium"
                 /\ ETA_BUCKET_WEIGHT(polIn.risk.eta_bucket)
                      < ETA_BUCKET_WEIGHT(chain.before.risk.eta_bucket)

\* The rise from absent state to medium was silenced at 23:00; the next
\* evaluation, at noon, has the same level and a looser bucket and is rejected
\* by the third rule.
C26_Witness ==
    /\ Suppressed
    /\ chain.length = 2
    /\ ~is_within_quiet_hours(polIn.now_sg, polIn.quiet[1], polIn.quiet[2])
    /\ polIn.risk.level = "medium"
    /\ ETA_BUCKET_WEIGHT(polIn.risk.eta_bucket)
         > ETA_BUCKET_WEIGHT(chain.before.risk.eta_bucket)
    /\ polOut.reason = "not_upward_or_eta_tightening"

====
